---- MODULE Spec2Model ----
(***************************************************************************)
(* Exchange connectivity layer of the trading bot (C++ port):              *)
(* BinanceRestClient (httpGetJson, fetchUsdtBalance, fetchUsdtSymbols,     *)
(* fetchKlines) running on the single-threaded Qt event loop.              *)
(*                                                                         *)
(* Text is a sequence of atoms: a one-character string where the code      *)
(* looks inside the text (credentials, numbers, symbols), one opaque       *)
(* string for a fixed message.  A JSON value is [t |-> type, v |-> value]. *)
(* A double is [cls |-> "finite" | "nan" | "inf", v |-> Int].              *)
(***************************************************************************)
EXTENDS Integers, Sequences, FiniteSets, TLC

\* ------------------------------------------------------------------ bounds
MaxTicks == 4          \* the clock stops after this many half-second ticks
MaxTimeoutTicks == 3   \* timeoutMs is drawn from 0 .. MaxTimeoutTicks ticks
MaxDepth == 2          \* nested httpGetJson event loops
MaxCalls == 2          \* invocations of the fetch operations in one run
MaxWsCalls == 3        \* calls of connectBookTicker in one run

\* --------------------------------------------------------- program constants
MinTimerMs == 1000     \* timer.start(std::max(1000, timeoutMs))
KlineMinLimit == 10    \* std::clamp(limit, 10, 1000)
KlineMaxLimit == 1000
KlineMinColumns == 6   \* row.size() < 6

TickMs == MinTimerMs \div 2

Max(a, b) == IF a >= b THEN a ELSE b
Min(a, b) == IF a <= b THEN a ELSE b

\* -------------------------------------------------------------------- text
Lit(s) == <<s>>
EmptyString == <<>>
isEmpty(s) == Len(s) = 0

IsSpace(c) == c \in {" ", "\t", "\n"}

RECURSIVE DropLeadingSpace(_)
DropLeadingSpace(s) ==
    IF s # <<>> /\ IsSpace(Head(s)) THEN DropLeadingSpace(Tail(s)) ELSE s

RECURSIVE DropTrailingSpace(_)
DropTrailingSpace(s) ==
    IF s # <<>> /\ IsSpace(s[Len(s)])
    THEN DropTrailingSpace(SubSeq(s, 1, Len(s) - 1))
    ELSE s

\* QString::trimmed
trimmed(s) == DropTrailingSpace(DropLeadingSpace(s))

LowerLetters == <<"a","b","c","d","e","f","g","h","i","j","k","l","m",
                  "n","o","p","q","r","s","t","u","v","w","x","y","z">>
UpperLetters == <<"A","B","C","D","E","F","G","H","I","J","K","L","M",
                  "N","O","P","Q","R","S","T","U","V","W","X","Y","Z">>

IndexIn(c, letters) ==
    IF \E i \in 1..Len(letters) : letters[i] = c
    THEN CHOOSE i \in 1..Len(letters) : letters[i] = c
    ELSE 0

UpperChar(c) == IF IndexIn(c, LowerLetters) > 0
                THEN UpperLetters[IndexIn(c, LowerLetters)] ELSE c

\* QString::toUpper
toUpper(s) == [i \in 1..Len(s) |-> UpperChar(s[i])]

Digits == <<"0","1","2","3","4","5","6","7","8","9">>
IsDigit(c) == \E i \in 1..Len(Digits) : Digits[i] = c
DigitValue(c) == (CHOOSE i \in 1..Len(Digits) : Digits[i] = c) - 1

RECURSIVE DecimalValue(_)
DecimalValue(s) ==
    IF s = <<>> THEN 0
    ELSE 10 * DecimalValue(SubSeq(s, 1, Len(s) - 1)) + DigitValue(s[Len(s)])

\* ------------------------------------------------------------------ doubles
Dbl(n) == [cls |-> "finite", v |-> n]
NaN == [cls |-> "nan", v |-> 0]
Infinity == [cls |-> "inf", v |-> 0]

\* QString::toDouble(&ok) in the C locale: surrounding white space is
\* skipped, "nan" and "inf" are numbers, anything else must be digits.
QStringToDouble(s) ==
    LET t == trimmed(s) IN
    IF t = <<"n","a","n">> THEN [ok |-> TRUE, value |-> NaN]
    ELSE IF t = <<"i","n","f">> THEN [ok |-> TRUE, value |-> Infinity]
    ELSE IF t # <<>> /\ \A i \in 1..Len(t) : IsDigit(t[i])
         THEN [ok |-> TRUE, value |-> Dbl(DecimalValue(t))]
         ELSE [ok |-> FALSE, value |-> Dbl(0)]

\* --------------------------------------------------------------------- JSON
Undefined == [t |-> "undefined", v |-> 0]
JNull == [t |-> "null", v |-> 0]
JBool(b) == [t |-> "bool", v |-> b]
JNum(n) == [t |-> "double", v |-> n]
JStr(s) == [t |-> "string", v |-> s]
JArr(a) == [t |-> "array", v |-> a]
JObj(o) == [t |-> "object", v |-> o]

\* QJsonObject::contains / QJsonObject::value
contains(obj, key) == key \in DOMAIN obj
value(obj, key) == IF key \in DOMAIN obj THEN obj[key] ELSE Undefined

EmptyObject == [k \in {} |-> Undefined]

\* QJsonValue::toString(defaultValue), toArray(), toObject()
toStringOr(j, default) == IF j.t = "string" THEN j.v ELSE default
toString(j) == toStringOr(j, EmptyString)
toArray(j) == IF j.t = "array" THEN j.v ELSE <<>>
toObject(j) == IF j.t = "object" THEN j.v ELSE EmptyObject

\* QJsonValue::toVariant().toDouble(&ok)
VariantToDouble(j) ==
    CASE j.t = "double" -> [ok |-> TRUE, value |-> Dbl(j.v)]
      [] j.t = "string" -> QStringToDouble(j.v)
      [] j.t = "bool"   -> [ok |-> TRUE, value |-> Dbl(IF j.v THEN 1 ELSE 0)]
      [] OTHER          -> [ok |-> FALSE, value |-> Dbl(0)]

\* parseJsonNumber(value, &out): ok and, when ok, the number written to out
parseJsonNumber(j) == VariantToDouble(j)

\* A response body: the bytes received and the JSON text they spell
\* (NotJson when they spell none).
NotJson == [t |-> "notjson", v |-> 0]
Body(bytes, tree) == [bytes |-> bytes, tree |-> tree]
NoBody == Body(<<>>, NotJson)

\* QJsonDocument: null, or an array or an object
NullDocument == [isNull |-> TRUE, root |-> Undefined]
isObject(doc) == ~doc.isNull /\ doc.root.t = "object"
isArray(doc) == ~doc.isNull /\ doc.root.t = "array"

\* QJsonDocument::fromJson(payload, &parseError): only an array or an object
\* is a document; empty input, other text and a bare scalar are parse errors.
fromJson(payload) ==
    IF payload.tree.t \in {"object", "array"}
    THEN [parseError |-> FALSE, document |-> [isNull |-> FALSE, root |-> payload.tree]]
    ELSE [parseError |-> TRUE, document |-> NullDocument]

\* -------------------------------------------------------------- httpGetJson
\* QNetworkReply::error() / errorString() of a finished reply
NoError == [code |-> "NoError", errorString |-> Lit("Unknown error")]
NetError(code, text) == [code |-> code, errorString |-> Lit(text)]

\* timerInterval with the floor added to the timeout instead of bounding it
timerIntervalPadded(timeoutMs) == MinTimerMs + timeoutMs

\* timer.start(std::max(1000, timeoutMs))
timerInterval(timeoutMs) == Max(MinTimerMs, timeoutMs)

\* timeoutReplyState without the abort
timeoutReplyStateNotAborted == "inflight"

\* What the timeout branch does to the reply before it returns
timeoutReplyState == "aborted"

\* httpGetJson that hands back the outcome of the parser without looking at it
httpGetJsonUncheckedParse(f) ==
    IF ~f.replyFinished
    THEN [document |-> NullDocument,
          error |-> Lit("Request timeout"),
          reply |-> timeoutReplyState]
    ELSE IF f.netError.code # "NoError"
    THEN [document |-> NullDocument,
          error |-> IF ~isEmpty(f.payload.bytes)
                    THEN f.netError.errorString \o Lit(" | ") \o f.payload.bytes
                    ELSE f.netError.errorString,
          reply |-> "finished"]
    ELSE [document |-> fromJson(f.payload).document,
          error |-> EmptyString,
          reply |-> "finished"]

\* httpGetJson that parses the body before it looks at the transport error
httpGetJsonParseFirst(f) ==
    IF ~f.replyFinished
    THEN [document |-> NullDocument,
          error |-> Lit("Request timeout"),
          reply |-> timeoutReplyState]
    ELSE LET parsed == fromJson(f.payload) IN
         IF parsed.parseError \/ parsed.document.isNull
         THEN [document |-> NullDocument,
               error |-> Lit("Invalid JSON response"),
               reply |-> "finished"]
         ELSE IF f.netError.code # "NoError"
         THEN [document |-> NullDocument,
               error |-> IF ~isEmpty(f.payload.bytes)
                         THEN f.netError.errorString \o Lit(" | ") \o f.payload.bytes
                         ELSE f.netError.errorString,
               reply |-> "finished"]
         ELSE [document |-> parsed.document,
               error |-> EmptyString,
               reply |-> "finished"]

\* httpGetJson after loop.exec() has returned, for the reply of frame f:
\* the returned document, the text written to *error, and the reply's state
\* when the function returns.
httpGetJson(f) ==
    IF ~f.replyFinished
    THEN [document |-> NullDocument,
          error |-> Lit("Request timeout"),
          reply |-> timeoutReplyState]
    ELSE IF f.netError.code # "NoError"
    THEN [document |-> NullDocument,
          error |-> IF ~isEmpty(f.payload.bytes)
                    THEN f.netError.errorString \o Lit(" | ") \o f.payload.bytes
                    ELSE f.netError.errorString,
          reply |-> "finished"]
    ELSE LET parsed == fromJson(f.payload) IN
         IF parsed.parseError \/ parsed.document.isNull
         THEN [document |-> NullDocument,
               error |-> Lit("Invalid JSON response"),
               reply |-> "finished"]
         ELSE [document |-> parsed.document,
               error |-> EmptyString,
               reply |-> "finished"]

\* --------------------------------------------------------- fetchUsdtBalance
USDT == <<"U","S","D","T">>

BalanceResult == [ok |-> FALSE, usdtBalance |-> Dbl(0), error |-> EmptyString]

\* credentialsMissing without trimmed()
credentialsMissingUntrimmed(apiKey, apiSecret) ==
    isEmpty(apiKey) \/ isEmpty(apiSecret)

\* apiKey.trimmed().isEmpty() || apiSecret.trimmed().isEmpty()
credentialsMissing(apiKey, apiSecret) ==
    isEmpty(trimmed(apiKey)) \/ isEmpty(trimmed(apiSecret))

\* FuturesBalanceKeys with the first two fields swapped
FuturesBalanceKeysMarginFirst ==
    <<"marginBalance", "walletBalance", "availableBalance">>

FuturesBalanceKeys == <<"walletBalance", "marginBalance", "availableBalance">>
SpotBalanceKeys == <<"free">>

\* for (key : keys) if (parseJsonNumber(asset.value(key), &value)) return value
RECURSIVE firstNumber(_, _, _)
firstNumber(asset, keys, k) ==
    IF k > Len(keys) THEN [ok |-> FALSE, value |-> Dbl(0)]
    ELSE LET parsed == parseJsonNumber(value(asset, keys[k])) IN
         IF parsed.ok THEN parsed ELSE firstNumber(asset, keys, k + 1)

\* scanBalances that gives up at the first USDT entry
RECURSIVE scanBalancesFirstEntry(_, _, _)
scanBalancesFirstEntry(entries, keys, i) ==
    IF i > Len(entries) THEN [ok |-> FALSE, value |-> Dbl(0)]
    ELSE LET asset == toObject(entries[i]) IN
         IF toString(value(asset, "asset")) # USDT
         THEN scanBalancesFirstEntry(entries, keys, i + 1)
         ELSE firstNumber(asset, keys, 1)

\* for (entry : entries) { skip unless asset == "USDT"; first number wins }
RECURSIVE scanBalances(_, _, _)
scanBalances(entries, keys, i) ==
    IF i > Len(entries) THEN [ok |-> FALSE, value |-> Dbl(0)]
    ELSE LET asset == toObject(entries[i]) IN
         IF toString(value(asset, "asset")) # USDT
         THEN scanBalances(entries, keys, i + 1)
         ELSE LET found == firstNumber(asset, keys, 1) IN
              IF found.ok THEN found ELSE scanBalances(entries, keys, i + 1)

\* resultError = obj.value("msg").toString("Binance API error")
exchangeError(obj) == toStringOr(value(obj, "msg"), Lit("Binance API error"))

\* fetchUsdtBalance that looks for the error envelope only after the balance
fetchUsdtBalanceEnvelopeLast(http, futures) ==
    IF http.document.isNull \/ ~isObject(http.document)
    THEN [BalanceResult EXCEPT !.error =
            IF isEmpty(http.error) THEN Lit("Unexpected Binance response")
            ELSE http.error]
    ELSE LET obj == http.document.root.v
             found == IF futures
                      THEN scanBalances(toArray(value(obj, "assets")),
                                        FuturesBalanceKeys, 1)
                      ELSE scanBalances(toArray(value(obj, "balances")),
                                        SpotBalanceKeys, 1) IN
    IF found.ok
    THEN [BalanceResult EXCEPT !.ok = TRUE, !.usdtBalance = found.value]
    ELSE IF contains(obj, "msg")
    THEN [BalanceResult EXCEPT !.error = exchangeError(obj)]
    ELSE [BalanceResult EXCEPT !.error = Lit("USDT balance not found")]

\* fetchUsdtBalance after httpGetJson has returned http = [document, error]
fetchUsdtBalance(http, futures) ==
    IF http.document.isNull \/ ~isObject(http.document)
    THEN [BalanceResult EXCEPT !.error =
            IF isEmpty(http.error) THEN Lit("Unexpected Binance response")
            ELSE http.error]
    ELSE LET obj == http.document.root.v IN
    IF contains(obj, "msg")
    THEN [BalanceResult EXCEPT !.error = exchangeError(obj)]
    ELSE LET found == IF futures
                      THEN scanBalances(toArray(value(obj, "assets")),
                                        FuturesBalanceKeys, 1)
                      ELSE scanBalances(toArray(value(obj, "balances")),
                                        SpotBalanceKeys, 1) IN
    IF found.ok
    THEN [BalanceResult EXCEPT !.ok = TRUE, !.usdtBalance = found.value]
    ELSE [BalanceResult EXCEPT !.error = Lit("USDT balance not found")]

\* --------------------------------------------------------- fetchUsdtSymbols
SymbolsResult == [ok |-> FALSE, symbols |-> <<>>, error |-> EmptyString]

TRADING == <<"T","R","A","D","I","N","G">>
PENDING_TRADING == <<"P","E","N","D","I","N","G","_","T","R","A","D","I","N","G">>
PERPETUAL == <<"P","E","R","P","E","T","U","A","L">>
CURRENT_QUARTER == <<"C","U","R","R","E","N","T","_","Q","U","A","R","T","E","R">>
NEXT_QUARTER == <<"N","E","X","T","_","Q","U","A","R","T","E","R">>

\* symbolQualifies with the filter of the contract type applied to spot too
symbolQualifiesContractAlways(sym, futures) ==
    /\ toString(value(sym, "quoteAsset")) = USDT
    /\ toUpper(toString(value(sym, "status"))) \in {TRADING, PENDING_TRADING}
    /\ toUpper(toString(value(sym, "contractType")))
          \in {PERPETUAL, CURRENT_QUARTER, NEXT_QUARTER}
    /\ ~isEmpty(toString(value(sym, "symbol")))

\* one catalog entry passes the filters of the loop and names a symbol
symbolQualifies(sym, futures) ==
    /\ toString(value(sym, "quoteAsset")) = USDT
    /\ toUpper(toString(value(sym, "status"))) \in {TRADING, PENDING_TRADING}
    /\ futures => toUpper(toString(value(sym, "contractType")))
                     \in {PERPETUAL, CURRENT_QUARTER, NEXT_QUARTER}
    /\ ~isEmpty(toString(value(sym, "symbol")))

RECURSIVE collectSymbols(_, _, _)
collectSymbols(symbols, futures, i) ==
    IF i > Len(symbols) THEN <<>>
    ELSE LET sym == toObject(symbols[i]) IN
         (IF symbolQualifies(sym, futures)
          THEN <<toString(value(sym, "symbol"))>> ELSE <<>>)
         \o collectSymbols(symbols, futures, i + 1)

\* QStringList::removeDuplicates keeps the first occurrence of each string
RECURSIVE removeDuplicates(_)
removeDuplicates(list) ==
    IF list = <<>> THEN <<>>
    ELSE LET init == removeDuplicates(SubSeq(list, 1, Len(list) - 1))
             x == list[Len(list)] IN
         IF \E i \in 1..Len(init) : init[i] = x THEN init ELSE Append(init, x)

\* QChar order of the characters used (code-unit order of ASCII)
CharOrder == <<" ", ".", "/">> \o Digits \o <<"@">> \o UpperLetters
             \o <<"_">> \o LowerLetters
CharCode(c) == IndexIn(c, CharOrder)

\* QString operator<
RECURSIVE stringLess(_, _)
stringLess(a, b) ==
    IF b = <<>> THEN FALSE
    ELSE IF a = <<>> THEN TRUE
    ELSE IF CharCode(Head(a)) # CharCode(Head(b))
         THEN CharCode(Head(a)) < CharCode(Head(b))
         ELSE stringLess(Tail(a), Tail(b))

RECURSIVE insertSorted(_, _)
insertSorted(sorted, x) ==
    IF sorted = <<>> THEN <<x>>
    ELSE IF stringLess(x, Head(sorted)) THEN <<x>> \o sorted
    ELSE <<Head(sorted)>> \o insertSorted(Tail(sorted), x)

\* sortStrings that leaves the list in the order of the catalog
sortStringsUnsorted(list) == list

\* std::sort(collected.begin(), collected.end(), a < b)
RECURSIVE sortStrings(_)
sortStrings(list) ==
    IF list = <<>> THEN <<>>
    ELSE insertSorted(sortStrings(Tail(list)), Head(list))

\* fetchUsdtSymbols after httpGetJson has returned
fetchUsdtSymbols(http, futures) ==
    IF http.document.isNull \/ ~isObject(http.document)
    THEN [SymbolsResult EXCEPT !.error =
            IF isEmpty(http.error) THEN Lit("Unexpected Binance response")
            ELSE http.error]
    ELSE LET obj == http.document.root.v IN
    IF contains(obj, "msg")
    THEN [SymbolsResult EXCEPT !.error = exchangeError(obj)]
    ELSE LET collected == collectSymbols(toArray(value(obj, "symbols")), futures, 1) IN
         [SymbolsResult EXCEPT !.ok = TRUE,
                               !.symbols = sortStrings(removeDuplicates(collected))]

\* -------------------------------------------------------------- fetchKlines
KlinesResult == [ok |-> FALSE, candles |-> <<>>, error |-> EmptyString]

\* QJsonValue::toVariant().toLongLong(&ok)
VariantToLongLong(j) ==
    CASE j.t = "double" -> [ok |-> TRUE, value |-> j.v]
      [] j.t = "string" ->
            LET t == trimmed(j.v) IN
            IF t # <<>> /\ \A i \in 1..Len(t) : IsDigit(t[i])
            THEN [ok |-> TRUE, value |-> DecimalValue(t)]
            ELSE [ok |-> FALSE, value |-> 0]
      [] j.t = "bool"   -> [ok |-> TRUE, value |-> IF j.v THEN 1 ELSE 0]
      [] OTHER          -> [ok |-> FALSE, value |-> 0]

\* klinesInputError without the check of the interval
klinesInputErrorSymbolOnly(symbol, interval) ==
    IF isEmpty(toUpper(trimmed(symbol))) THEN Lit("Symbol is required")
    ELSE EmptyString

\* the validation at the head of fetchKlines: the error text, empty if none
klinesInputError(symbol, interval) ==
    IF isEmpty(toUpper(trimmed(symbol))) THEN Lit("Symbol is required")
    ELSE IF isEmpty(trimmed(interval)) THEN Lit("Interval is required")
    ELSE EmptyString

\* safeLimit without the upper end of the range
safeLimitFloorOnly(limit) == Max(limit, KlineMinLimit)

\* std::clamp(limit, 10, 1000)
safeLimit(limit) == Min(Max(limit, KlineMinLimit), KlineMaxLimit)

\* QString::number(int): the decimal digits, after a minus sign if negative
RECURSIVE numberToString(_)
numberToString(n) ==
    IF n < 0 THEN <<"-">> \o numberToString(0 - n)
    ELSE IF n < 10 THEN <<Digits[n + 1]>>
    ELSE numberToString(n \div 10) \o <<Digits[(n % 10) + 1]>>

\* one row of the response: the candle it yields, if it yields one
parseCandle(entry) ==
    IF entry.t # "array" \/ Len(entry.v) < KlineMinColumns
    THEN [ok |-> FALSE]
    ELSE LET row == entry.v
             time == VariantToLongLong(row[1])
             open == parseJsonNumber(row[2])
             high == parseJsonNumber(row[3])
             low == parseJsonNumber(row[4])
             close == parseJsonNumber(row[5])
             volume == parseJsonNumber(row[6]) IN
         IF ~time.ok \/ ~open.ok \/ ~high.ok \/ ~low.ok \/ ~close.ok \/ ~volume.ok
         THEN [ok |-> FALSE]
         ELSE [ok |-> TRUE,
               candle |-> [openTimeMs |-> time.value, open |-> open.value,
                           high |-> high.value, low |-> low.value,
                           close |-> close.value, volume |-> volume.value]]

\* parseCandles that gives up at the first row that yields no candle
RECURSIVE parseCandlesStopAtBadRow(_, _)
parseCandlesStopAtBadRow(candles, i) ==
    IF i > Len(candles) THEN <<>>
    ELSE LET row == parseCandle(candles[i]) IN
         IF row.ok THEN <<row.candle>> \o parseCandlesStopAtBadRow(candles, i + 1)
         ELSE <<>>


\* parseCandles that puts each candle before the candles of the rows above
RECURSIVE parseCandlesNewestFirst(_, _)
parseCandlesNewestFirst(candles, i) ==
    IF i > Len(candles) THEN <<>>
    ELSE LET row == parseCandle(candles[i]) IN
         parseCandlesNewestFirst(candles, i + 1)
         \o (IF row.ok THEN <<row.candle>> ELSE <<>>)

\* for (entry : candles): each row that passes yields one candle, in order
RECURSIVE parseCandles(_, _)
parseCandles(candles, i) ==
    IF i > Len(candles) THEN <<>>
    ELSE LET row == parseCandle(candles[i]) IN
         (IF row.ok THEN <<row.candle>> ELSE <<>>) \o parseCandles(candles, i + 1)

\* fetchKlines after httpGetJson has returned
fetchKlines(http, cleanSymbol, cleanInterval) ==
    IF http.document.isNull \/ ~isArray(http.document)
    THEN [KlinesResult EXCEPT !.error =
            IF isEmpty(http.error) THEN Lit("Unexpected Binance kline response")
            ELSE http.error]
    ELSE LET parsed == parseCandles(http.document.root.v, 1) IN
    IF parsed = <<>>
    THEN [KlinesResult EXCEPT !.error =
            Lit("No candle data returned for ") \o cleanSymbol \o Lit(" (")
            \o cleanInterval \o Lit(")")]
    ELSE [KlinesResult EXCEPT !.ok = TRUE, !.candles = parsed]

\* ------------------------------------------------------- request endpoints
restBase(futures, testnet) ==
    IF futures
    THEN (IF testnet THEN Lit("https://testnet.binancefuture.com")
          ELSE Lit("https://fapi.binance.com"))
    ELSE (IF testnet THEN Lit("https://testnet.binance.vision")
          ELSE Lit("https://api.binance.com"))

restEndpoint(op, futures) ==
    CASE op = "balance" -> IF futures THEN Lit("/fapi/v2/account") ELSE Lit("/api/v3/account")
      [] op = "symbols" -> IF futures THEN Lit("/fapi/v1/exchangeInfo") ELSE Lit("/api/v3/exchangeInfo")
      [] op = "klines"  -> IF futures THEN Lit("/fapi/v1/klines") ELSE Lit("/api/v3/klines")

\* ------------------------------------------------------------ the requests
\* A URL is kept as the parts it is put together from, in order: a part is
\* text, or the hexadecimal digest of a message under a key.
Text(text) == [kind |-> "text", text |-> text, key |-> <<>>, message |-> <<>>]

\* QString::toUtf8 of the characters used, all ASCII: one byte per character
toUtf8(s) == s

\* hmacSha256Hex that hands back the key and the message as they are
hmacSha256HexKeyInClear(secret, message) == Text(toUtf8(secret) \o toUtf8(message))

\* hmacSha256Hex(secret, message): the digest names its key and its message
\* and shows neither
hmacSha256Hex(secret, message) ==
    [kind |-> "hmacSha256Hex", text |-> <<>>, key |-> toUtf8(secret),
     message |-> toUtf8(message)]

Header(name, headerValue) == <<name, headerValue>>

\* request.setHeader(QNetworkRequest::UserAgentHeader, ...), then the headers
\* of the caller
requestHeaders(headers) ==
    <<Header("User-Agent", Lit("trading-bot-cpp/1.0"))>> \o headers

Request(url, headers) == [url |-> url, headers |-> requestHeaders(headers)]

\* the query of the balance request signed with the clock read once more
balanceRequestClockReadTwice(apiKey, apiSecret, futures, testnet, timestamp) ==
    LET query == Lit("timestamp=") \o numberToString(timestamp)
        signature == hmacSha256Hex(apiSecret,
                        Lit("timestamp=") \o numberToString(timestamp + 1)) IN
    Request(<<Text(restBase(futures, testnet)),
              Text(restEndpoint("balance", futures)),
              Text(Lit("?")), Text(query), Text(Lit("&signature=")), signature>>,
            <<Header("X-MBX-APIKEY", toUtf8(apiKey))>>)

\* the request of fetchUsdtBalance: query, signature, url and the header
balanceRequest(apiKey, apiSecret, futures, testnet, timestamp) ==
    LET query == Lit("timestamp=") \o numberToString(timestamp)
        signature == hmacSha256Hex(apiSecret, query) IN
    Request(<<Text(restBase(futures, testnet)),
              Text(restEndpoint("balance", futures)),
              Text(Lit("?")), Text(query), Text(Lit("&signature=")), signature>>,
            <<Header("X-MBX-APIKEY", toUtf8(apiKey))>>)

\* the request of fetchUsdtSymbols
symbolsRequest(futures, testnet) ==
    Request(<<Text(restBase(futures, testnet)),
              Text(restEndpoint("symbols", futures))>>, <<>>)

\* the request of fetchKlines
klinesRequest(cleanSymbol, cleanInterval, futures, testnet, limit) ==
    Request(<<Text(restBase(futures, testnet)),
              Text(restEndpoint("klines", futures)),
              Text(Lit("?symbol=")), Text(cleanSymbol),
              Text(Lit("&interval=")), Text(cleanInterval),
              Text(Lit("&limit=")), Text(numberToString(safeLimit(limit)))>>,
            <<>>)

\* the request of operation op with the given input, the clock at timestamp
requestOf(op, input, timestamp) ==
    CASE op = "balance" -> balanceRequest(input.apiKey, input.apiSecret,
                                          input.futures, input.testnet, timestamp)
      [] op = "symbols" -> symbolsRequest(input.futures, input.testnet)
      [] op = "klines"  -> klinesRequest(toUpper(trimmed(input.symbol)),
                                         trimmed(input.interval), input.futures,
                                         input.testnet, input.limit)

\* ------------------------------------------------- inputs and server replies
Timeouts == {0, TickMs, MaxTimeoutTicks * TickMs}

\* <<futures, testnet, timeoutMs>>: every market, and every timeout
Markets ==
    {<<futures, testnet, MaxTimeoutTicks * TickMs>> :
        futures \in BOOLEAN, testnet \in BOOLEAN}
    \cup {<<TRUE, FALSE, timeoutMs>> : timeoutMs \in Timeouts}

\* <<apiKey, apiSecret>>
Credentials == <<
    << <<>>, <<"s">> >>,
    << <<" ">>, <<"s">> >>,
    << <<"k">>, <<>> >>,
    << <<"k">>, <<"\t", " ">> >>,
    << <<"k">>, <<"s">> >>,
    << <<" ", "k", "\t">>, <<"s">> >> >>

BTCUSDT == <<"B","T","C","U","S","D","T">>
ETHUSDT == <<"E","T","H","U","S","D","T">>
OneMinute == <<"1","m">>

\* <<symbol, interval, limit>>
KlineArgs == <<
    << <<>>, OneMinute, 320 >>,
    << <<" ">>, OneMinute, 320 >>,
    << <<" ","b","t","c","u","s","d","t">>, <<>>, 320 >>,
    << ETHUSDT, <<" ", " ">>, 320 >>,
    << <<" ","b","t","c","u","s","d","t">>, OneMinute, 0 >>,
    << ETHUSDT, OneMinute, 5000 >>,
    << ETHUSDT, OneMinute, -5 >>,
    << ETHUSDT, OneMinute, 7 >>,
    << ETHUSDT, OneMinute, 1000 >>,
    << ETHUSDT, OneMinute, 320 >> >>

Num10 == JStr(<<"1","0">>)
Num20 == JStr(<<"2","0">>)
Num30 == JStr(<<"3","0">>)
NotANumber == JStr(<<"x">>)

Asset(name, fields) == JObj(("asset" :> JStr(name)) @@ fields)
BNB == <<"B","N","B">>
NoFields == [k \in {} |-> Undefined]

\* "assets" arrays of a futures account
AssetLists == <<
    <<Asset(USDT, [walletBalance |-> Num10, marginBalance |-> Num20,
                   availableBalance |-> Num30])>>,
    <<Asset(BNB, [walletBalance |-> JStr(<<"5">>)]),
      Asset(USDT, [marginBalance |-> Num20, availableBalance |-> Num30])>>,
    <<Asset(USDT, [availableBalance |-> JNum(30)])>>,
    <<Asset(USDT, [walletBalance |-> NotANumber, marginBalance |-> Num20])>>,
    <<Asset(USDT, NoFields), Asset(USDT, [walletBalance |-> JStr(<<"7">>)])>>,
    <<Asset(BNB, [walletBalance |-> JStr(<<"5">>)])>>,
    <<Asset(USDT, [walletBalance |-> JNull])>>,
    <<>> >>

\* "balances" arrays of a spot account
BalanceLists == <<
    <<Asset(USDT, [free |-> Num10, locked |-> JStr(<<"1">>)])>>,
    <<Asset(BNB, [free |-> JStr(<<"1">>)]), Asset(USDT, [free |-> NotANumber])>>,
    <<Asset(USDT, [free |-> NotANumber]), Asset(USDT, [free |-> JStr(<<"3">>)])>>,
    <<Asset(BNB, [free |-> JStr(<<"1">>)])>> >>

\* the "msg" member of an error envelope; Undefined: no such member
EnvelopeMessages == << JStr(<<>>), JStr(Lit("Invalid API-key, IP, or permissions for action.")),
                       JNum(5) >>

WithMsg(msg, obj) == ("msg" :> msg) @@ ("code" :> JNum(2015)) @@ obj

AccountObjects ==
    [i \in 1..Len(AssetLists) |-> JObj([assets |-> JArr(AssetLists[i])])]
    \o [i \in 1..Len(BalanceLists) |-> JObj([balances |-> JArr(BalanceLists[i])])]
    \o [i \in 1..Len(EnvelopeMessages) |-> JObj(WithMsg(EnvelopeMessages[i], EmptyObject))]
    \o [i \in 1..Len(EnvelopeMessages) |->
           JObj(WithMsg(EnvelopeMessages[i], [assets |-> JArr(AssetLists[1]),
                                              balances |-> JArr(BalanceLists[1])]))]
    \o <<JArr(<<>>)>>

Sym(name, quote, status, contract) ==
    JObj([symbol |-> JStr(name), quoteAsset |-> JStr(quote),
          status |-> JStr(status), contractType |-> JStr(contract)])
BREAK == <<"B","R","E","A","K">>
BTC == <<"B","T","C">>
ETHBTC == <<"E","T","H","B","T","C">>

CatalogObjects == <<
    JObj([symbols |-> JArr(<<Sym(ETHUSDT, USDT, TRADING, PERPETUAL),
                             Sym(BTCUSDT, USDT, <<"t","r","a","d","i","n","g">>, PERPETUAL),
                             Sym(ETHUSDT, USDT, PENDING_TRADING, NEXT_QUARTER)>>)]),
    JObj([symbols |-> JArr(<<Sym(BTCUSDT, USDT, TRADING, PERPETUAL),
                             Sym(ETHUSDT, USDT, BREAK, PERPETUAL),
                             Sym(ETHBTC, BTC, TRADING, <<>>)>>)]),
    JObj([symbols |-> JArr(<<Sym(ETHUSDT, USDT, TRADING, <<>>),
                             Sym(<<>>, USDT, TRADING, PERPETUAL),
                             Sym(BTCUSDT, <<"u","s","d","t">>, TRADING, PERPETUAL)>>)]),
    JObj(WithMsg(EnvelopeMessages[1],
                 [symbols |-> JArr(<<Sym(BTCUSDT, USDT, TRADING, PERPETUAL)>>)])),
    JObj(WithMsg(EnvelopeMessages[2],
                 [symbols |-> JArr(<<Sym(BTCUSDT, USDT, TRADING, PERPETUAL)>>)])),
    JObj(EmptyObject),
    JArr(<<>>) >>

Row(time, close) == JArr(<<time, Num10, Num30, Num10, close, JStr(<<"5">>), JNum(99)>>)

KlineArrays == <<
    JArr(<<Row(JNum(1), Num20), Row(JNum(2), Num10)>>),
    JArr(<<Row(JNum(1), Num20), Row(JNum(2), NotANumber), Row(JNum(3), Num30)>>),
    JArr(<<Row(JNum(2), Num20), Row(JNum(1), Num20)>>),
    JArr(<<Row(JStr(<<"7">>), JNum(20)),
           JArr(<<JNum(8), Num10, Num30, Num10, Num20>>), JNull,
           JArr(<<JNum(9), Num10, Num30, Num10, Num20, JNum(5)>>)>>),
    JArr(<<Row(JNum(1), NotANumber), Row(JNull, Num10)>>),
    JArr(<<>>),
    JObj(WithMsg(EnvelopeMessages[2], EmptyObject)),
    JArr(<<Row(JNum(1), JStr(<<"n","a","n">>)), Row(JNum(2), Num20),
           Row(JNum(3), JStr(<<" ","i","n","f">>)), Row(JNum(4), JBool(TRUE)),
           Row(JNum(5), JNull)>>) >>

Documents(op) ==
    CASE op = "balance" -> AccountObjects
      [] op = "symbols" -> CatalogObjects
      [] op = "klines"  -> KlineArrays

ConnectionRefused == NetError("ConnectionRefusedError", "Connection refused")
BadRequest == NetError("ProtocolInvalidOperationError",
                       "Error transferring - server replied: Bad Request")

Reply(netError, payload) == [netError |-> netError, payload |-> payload]
JsonBody(tree) == Body(Lit("<json text>"), tree)

\* what the server and the transport can answer to a request of operation op
Replies(op) ==
    << Reply(ConnectionRefused, NoBody),
       Reply(BadRequest, Body(Lit("<html>Bad Request</html>"), NotJson)),
       Reply(BadRequest, JsonBody(JObj(WithMsg(EnvelopeMessages[2], EmptyObject)))),
       Reply(NoError, NoBody),
       Reply(NoError, Body(Lit("<html>Service unavailable</html>"), NotJson)),
       Reply(NoError, Body(Lit("null"), JNull)) >>
    \o [i \in 1..Len(Documents(op)) |-> Reply(NoError, JsonBody(Documents(op)[i]))]

\* what is answered to the requests of the handlers
NestedReplies(op) ==
    << Reply(ConnectionRefused, NoBody),
       Reply(NoError, JsonBody(Documents(op)[1])) >>

\* ============================================================ BinanceWsClient
\* The client of the build with Qt WebSockets (HAS_QT_WEBSOCKETS), the only
\* one that owns a socket.

\* QString::toLower
LowerChar(c) == IF IndexIn(c, UpperLetters) > 0
                THEN LowerLetters[IndexIn(c, UpperLetters)] ELSE c
toLower(s) == [i \in 1..Len(s) |-> LowerChar(s[i])]

\* QString::remove(QChar)
removeChar(s, ch) == SelectSeq(s, LAMBDA c : c # ch)

normalizedStreamSymbol(symbol) == removeChar(toLower(trimmed(symbol)), " ")

streamBase(futures, testnet) ==
    IF futures
    THEN (IF testnet THEN Lit("wss://stream.binancefuture.com/ws")
          ELSE Lit("wss://fstream.binance.com/ws"))
    ELSE (IF testnet THEN Lit("wss://testnet.binance.vision/ws")
          ELSE Lit("wss://stream.binance.com:9443/ws"))

streamUrl(symbol, futures, testnet) ==
    streamBase(futures, testnet) \o Lit("/") \o normalizedStreamSymbol(symbol)
    \o Lit("@bookTicker")

\* a signal emitted by the client, and a call it makes on its QWebSocket
Signal(name, args) == [signal |-> name, args |-> args]
SocketCall(method, url) == [method |-> method, url |-> url]

\* what a method or a slot of the client does: the signals it emits and the
\* calls it makes on socket_, in order
Effects(events, calls) == [events |-> events, calls |-> calls]

\* connectBookTicker that opens the new connection without closing the old
connectBookTickerNoClose(symbol, futures, testnet, state) ==
    IF isEmpty(normalizedStreamSymbol(symbol))
    THEN Effects(<<Signal("errorOccurred", <<Lit("Symbol is empty.")>>)>>, <<>>)
    ELSE Effects(<<>>, <<SocketCall("open", streamUrl(symbol, futures, testnet))>>)

\* connectBookTicker that closes the socket before it looks at the symbol
connectBookTickerCloseFirst(symbol, futures, testnet, state) ==
    LET closing == IF state # "UnconnectedState"
                   THEN <<SocketCall("close", EmptyString)>> ELSE <<>> IN
    IF isEmpty(normalizedStreamSymbol(symbol))
    THEN Effects(<<Signal("errorOccurred", <<Lit("Symbol is empty.")>>)>>, closing)
    ELSE Effects(<<>>,
                 closing \o <<SocketCall("open", streamUrl(symbol, futures, testnet))>>)

\* connectBookTicker(symbol, futures, testnet) when socket_->state() is state
connectBookTicker(symbol, futures, testnet, state) ==
    IF isEmpty(normalizedStreamSymbol(symbol))
    THEN Effects(<<Signal("errorOccurred", <<Lit("Symbol is empty.")>>)>>, <<>>)
    ELSE Effects(<<>>,
                 (IF state # "UnconnectedState"
                  THEN <<SocketCall("close", EmptyString)>> ELSE <<>>)
                 \o <<SocketCall("open", streamUrl(symbol, futures, testnet))>>)

\* disconnectFromStream that leaves the socket alone
disconnectFromStreamNoClose(state) == Effects(<<>>, <<>>)

\* disconnectFromStream that closes whatever the state of the socket
disconnectFromStreamUnguarded(state) ==
    Effects(<<>>, <<SocketCall("close", EmptyString)>>)

\* disconnectFromStream() when socket_->state() is state
disconnectFromStream(state) ==
    IF state # "UnconnectedState"
    THEN Effects(<<>>, <<SocketCall("close", EmptyString)>>)
    ELSE Effects(<<>>, <<>>)

\* the textMessageReceived slot that does not look at the ask
textMessageReceivedBidOnly(message) ==
    LET parsed == fromJson(message) IN
    IF parsed.parseError \/ ~isObject(parsed.document) THEN Effects(<<>>, <<>>)
    ELSE LET obj == parsed.document.root.v
             symbol == toString(value(obj, "s"))
             bid == VariantToDouble(value(obj, "b"))
             ask == VariantToDouble(value(obj, "a")) IN
         IF ~isEmpty(symbol) /\ bid.ok
         THEN Effects(<<Signal("bookTicker", <<symbol, bid.value, ask.value>>)>>, <<>>)
         ELSE Effects(<<>>, <<>>)

\* the slot of QWebSocket::textMessageReceived
textMessageReceived(message) ==
    LET parsed == fromJson(message) IN
    IF parsed.parseError \/ ~isObject(parsed.document) THEN Effects(<<>>, <<>>)
    ELSE LET obj == parsed.document.root.v
             symbol == toString(value(obj, "s"))
             bid == VariantToDouble(value(obj, "b"))
             ask == VariantToDouble(value(obj, "a")) IN
         IF ~isEmpty(symbol) /\ bid.ok /\ ask.ok
         THEN Effects(<<Signal("bookTicker", <<symbol, bid.value, ask.value>>)>>, <<>>)
         ELSE Effects(<<>>, <<>>)

\* the errorOccurred slot that opens the last requested URL again
errorOccurredReconnects(errorString, requestUrl) ==
    Effects(<<Signal("errorOccurred", <<errorString>>)>>,
            <<SocketCall("open", requestUrl)>>)

\* the slot of QWebSocket::errorOccurred
errorOccurred(errorString, requestUrl) ==
    Effects(<<Signal("errorOccurred", <<errorString>>)>>, <<>>)

\* the signals QWebSocket::connected and QWebSocket::disconnected are
\* connected to the signals of the client
connected == Effects(<<Signal("connected", <<>>)>>, <<>>)
disconnected == Effects(<<Signal("disconnected", <<>>)>>, <<>>)

\* ------------------------------------------------------------- the QWebSocket
\* The socket: its state(), the connection it is attached to (0 for none) and
\* the URL last requested.  The connections: those that exist on the network,
\* each connecting, open or closing, with its URL; a connection that is
\* closed is no longer among them.
NoSocket == [state |-> "UnconnectedState", current |-> 0, requestUrl |-> EmptyString]
NoConnections == [id \in {} |-> 0]
Connection(status, url) == [status |-> status, url |-> url]

Without(conns, id) == [c \in DOMAIN conns \ {id} |-> conns[c]]

\* the socket, the connections, the number of connections opened so far and
\* the signals emitted so far in the step
Outcome(socket, conns, opens, events) ==
    [socket |-> socket, conns |-> conns, opens |-> opens, events |-> events]

\* QWebSocket::close(): nothing on an unconnected socket or on a connection
\* that is being closed already; otherwise the close frame is sent and the
\* connection is closed, at once (disconnected is emitted inside the call) or
\* later, when what is still to be written has left
close(o) ==
    IF \/ o.socket.state = "UnconnectedState"
       \/ o.socket.current \notin DOMAIN o.conns
       \/ o.conns[o.socket.current].status = "closing"
    THEN {o}
    ELSE { Outcome([o.socket EXCEPT !.state = "UnconnectedState"],
                   Without(o.conns, o.socket.current), o.opens,
                   o.events \o disconnected.events),
           Outcome([o.socket EXCEPT !.state =
                        IF o.socket.state = "ConnectedState"
                        THEN "ClosingState" ELSE o.socket.state],
                   [o.conns EXCEPT ![o.socket.current].status = "closing"],
                   o.opens, o.events) }

\* open that has the connection established when it returns
openAlreadyConnected(o, url) ==
    { Outcome([state |-> "ConnectedState", current |-> o.opens + 1,
               requestUrl |-> url],
              (o.opens + 1 :> Connection("open", url)) @@ o.conns,
              o.opens + 1, o.events) }

\* QWebSocket::open(url): the socket lets go of the connection it is attached
\* to, which it deletes later, and starts a new one
open(o, url) ==
    { Outcome([state |-> "ConnectingState", current |-> o.opens + 1,
               requestUrl |-> url],
              (o.opens + 1 :> Connection("connecting", url)) @@ o.conns,
              o.opens + 1, o.events) }

\* the calls of a method or slot, made one after another
RECURSIVE perform(_, _)
perform(outcomes, socketCalls) ==
    IF socketCalls = <<>> THEN outcomes
    ELSE perform(UNION {IF Head(socketCalls).method = "close" THEN close(o)
                        ELSE open(o, Head(socketCalls).url) : o \in outcomes},
                 Tail(socketCalls))

\* ======================================================= the symbol normaliser
\* QString::endsWith, QString::chop, QString::left, QString::contains(QChar)
endsWith(s, suffix) ==
    /\ Len(s) >= Len(suffix)
    /\ SubSeq(s, Len(s) - Len(suffix) + 1, Len(s)) = suffix
chop(s, n) == SubSeq(s, 1, Max(Len(s) - n, 0))
left(s, n) == SubSeq(s, 1, Min(Max(n, 0), Len(s)))
containsChar(s, ch) == \E i \in 1..Len(s) : s[i] = ch

FuturesSuffix == <<".", "P">>

normalizeChartSymbol(symbol) ==
    LET out == removeChar(toUpper(trimmed(symbol)), "/") IN
    IF endsWith(out, FuturesSuffix) THEN chop(out, 2) ELSE out

quoteAssets == <<
    <<"U","S","D","T">>, <<"U","S","D","C">>, <<"B","U","S","D">>,
    <<"F","D","U","S","D">>, <<"T","U","S","D">>, <<"D","A","I">>,
    <<"U","S","D">>, <<"B","T","C">>, <<"E","T","H">>, <<"B","N","B">>,
    <<"E","U","R">>, <<"T","R","Y">>, <<"G","B","P">>, <<"A","U","D">>,
    <<"B","R","L">>, <<"R","U","B">>, <<"I","D","R">>, <<"U","A","H">>,
    <<"Z","A","R">>, <<"B","I","D","R">>, <<"P","A","X">> >>

\* the loop over quoteAssets from entry i on: the first entry that ends the
\* symbol and is shorter than it decides
RECURSIVE splitAtQuote(_, _)
splitAtQuote(symbol, i) ==
    IF i > Len(quoteAssets) THEN symbol
    ELSE LET quote == quoteAssets[i] IN
         IF endsWith(symbol, quote) /\ Len(symbol) > Len(quote)
         THEN left(symbol, Len(symbol) - Len(quote)) \o <<"_">> \o quote
         ELSE splitAtQuote(symbol, i + 1)

spotSymbolWithUnderscore(symbol) ==
    IF containsChar(symbol, "_") THEN symbol ELSE splitAtQuote(symbol, 1)

\* QString("%1.P").arg(raw): the display form of a futures symbol
futuresDisplay(raw) == raw \o FuturesSuffix

\* ------------------------------------------------------------ the chart page
\* The page of the build without Qt WebEngine, in the original view.
\* fetchKlines(rawSymbol, interval, futures, false, 320, 12000)
ChartKlineLimit == 320
\* the 12000 ms of the page on the clock of the model
ChartTimeoutMs == MaxTimeoutTicks * TickMs

\* the lambda currentRawSymbol: the data of the current combo entry, or its text
currentRawSymbol(data, text) ==
    LET raw == toUpper(trimmed(data)) IN
    IF isEmpty(raw) THEN normalizeChartSymbol(text) ELSE raw

\* a refreshOriginal that waits in fetchKlines: the call, and the symbol and
\* interval it read from the combo boxes when it started
Refresh(id, rawSymbol, interval) ==
    [id |-> id, rawSymbol |-> rawSymbol, interval |-> interval]

\* the page once built: the symbols are loaded, nothing is drawn yet.
\* writer and latest tell which refresh wrote what is shown and which was
\* started last.
NewChart ==
    [symbol |-> <<"B","T","C","U","S","D","T">>, interval |-> <<"1","m">>,
     futures |-> FALSE, candles |-> <<>>, overlay |-> EmptyString,
     status |-> EmptyString, writer |-> 0, latest |-> 0, refreshes |-> <<>>]

\* refreshOriginal from the return of fetchKlines on, for the innermost
\* waiting refresh
refreshOriginalShow(c, result) ==
    LET refresh == c.refreshes[Len(c.refreshes)]
        shown == [c EXCEPT !.refreshes = SubSeq(@, 1, Len(@) - 1),
                           !.writer = refresh.id] IN
    IF ~result.ok
    THEN [shown EXCEPT !.candles = <<>>, !.overlay = result.error,
                       !.status = Lit("Original chart load failed: ") \o result.error]
    ELSE [shown EXCEPT !.candles = result.candles,
                       !.overlay = IF c.futures THEN Lit("Source: Binance Futures")
                                   ELSE Lit("Source: Binance Spot"),
                       !.status = Lit("Original view loaded: ") \o refresh.rawSymbol
                                  \o Lit(" (") \o refresh.interval \o Lit(")")]

SymbolCall(fn, input, output, canonical) ==
    [fn |-> fn, input |-> input, output |-> output, canonical |-> canonical]
NoSymbolCall == SymbolCall("none", <<>>, <<>>, <<>>)

\* ---------------------------------------------------------------- the state
VARIABLES
    now,        \* the clock of the event loop, in ms
    stack,      \* the httpGetJson calls waiting in loop.exec(), innermost last
    inflight,   \* ids of the calls whose request is still open on the network
    calls,      \* number of fetch operations invoked so far
    last,       \* the result handed back by the step just taken, if any
    socket_,    \* the QWebSocket of the client
    connections,\* the connections of the client that exist on the network
    wsCalls,    \* number of connectBookTicker calls and of connections opened
    wsStep,     \* what the step of the client just taken did
    symbolCall, \* the call of a function of the symbol normaliser just made
    chart       \* the chart page: its combo boxes, what it shows, its refreshes

restVars == <<now, stack, inflight, calls, last>>
wsVars == <<socket_, connections, wsCalls, wsStep>>
uiVars == <<symbolCall>>
vars == <<now, stack, inflight, calls, last, socket_, connections, wsCalls, wsStep,
          symbolCall, chart>>

\* QDateTime::currentMSecsSinceEpoch(), counted from the start of the run
currentMSecsSinceEpoch == now

\* a step of the client: the method called or the slot run, its argument,
\* the state of the socket before it, the calls it made on the socket and the
\* signals the client emitted
Step(op, arg, from, socketCalls, events) ==
    [op |-> op, arg |-> arg, from |-> from, calls |-> socketCalls, events |-> events]
NoStep == Step("none", <<>>, "UnconnectedState", <<>>, <<>>)

Input(apiKey, apiSecret, symbol, interval, limit, futures, testnet, timeoutMs) ==
    [apiKey |-> apiKey, apiSecret |-> apiSecret, symbol |-> symbol,
     interval |-> interval, limit |-> limit, futures |-> futures,
     testnet |-> testnet, timeoutMs |-> timeoutMs]

NoInput == Input(<<>>, <<>>, <<>>, <<>>, 0, FALSE, FALSE, 0)

NoHttp == [document |-> NullDocument, error |-> EmptyString, reply |-> "none"]

NoResult ==
    [op |-> "none", id |-> 0, input |-> NoInput, gets |-> 0, signatures |-> 0,
     called |-> FALSE, http |-> NoHttp, replyFinished |-> FALSE,
     netError |-> NoError, payload |-> NoBody, start |-> 0, end |-> 0,
     nestedEnd |-> 0, result |-> BalanceResult]

\* a fetch operation that returns before it calls httpGetJson
EarlyResult(op, id, input, result) ==
    [NoResult EXCEPT !.op = op, !.id = id, !.input = input, !.start = now,
                     !.end = now, !.result = result]

\* httpGetJson up to loop.exec(): one GET is issued, the single-shot timer
\* is started, and the call waits in its own event loop
Frame(op, id, input, signatures) ==
    [op |-> op, id |-> id, input |-> input, gets |-> 1,
     signatures |-> signatures,
     request |-> [base |-> restBase(input.futures, input.testnet),
                  endpoint |-> restEndpoint(op, input.futures),
                  limit |-> IF op = "klines"
                            THEN numberToString(safeLimit(input.limit))
                            ELSE EmptyString,
                  url |-> requestOf(op, input, currentMSecsSinceEpoch).url,
                  headers |-> requestOf(op, input, currentMSecsSinceEpoch).headers],
     start |-> now, deadline |-> now + timerInterval(input.timeoutMs),
     timerFired |-> FALSE, quit |-> FALSE,
     replyFinished |-> FALSE, netError |-> NoError, payload |-> NoBody,
     nestedEnd |-> 0]

Top == stack[Len(stack)]

Init ==
    /\ now = 0
    /\ stack = <<>>
    /\ inflight = {}
    /\ calls = 0
    /\ last = NoResult
    /\ socket_ = NoSocket
    /\ connections = NoConnections
    /\ wsCalls = [connectBookTicker |-> 0, open |-> 0]
    /\ wsStep = NoStep
    /\ symbolCall = NoSymbolCall
    /\ chart = NewChart

\* A fetch operation is invoked from the user interface: from the idle
\* application, or from a handler that a waiting httpGetJson loop dispatches.
CanInvoke ==
    /\ calls < MaxCalls
    /\ Len(stack) < MaxDepth

Begin(op, input, inputError, default, signatures) ==
    /\ CanInvoke
    /\ calls' = calls + 1
    /\ now' = now
    /\ IF ~isEmpty(inputError)
       THEN /\ last' = EarlyResult(op, calls + 1, input,
                                   [default EXCEPT !.error = inputError])
            /\ UNCHANGED <<stack, inflight>>
       ELSE /\ stack' = Append(stack, Frame(op, calls + 1, input, signatures))
            /\ inflight' = inflight \cup {calls + 1}
            /\ last' = NoResult
    /\ UNCHANGED <<wsVars, uiVars>>

\* the validation at the head of fetchUsdtBalance: the error text, empty if none
balanceInputError(apiKey, apiSecret) ==
    IF credentialsMissing(apiKey, apiSecret)
    THEN Lit("Missing API credentials") ELSE EmptyString

InvokeFetchUsdtBalance(apiKey, apiSecret, futures, testnet, timeoutMs) ==
    /\ Begin("balance",
             Input(apiKey, apiSecret, <<>>, <<>>, 0, futures, testnet, timeoutMs),
             balanceInputError(apiKey, apiSecret), BalanceResult, 1)
    /\ UNCHANGED chart

InvokeFetchUsdtSymbols(futures, testnet, timeoutMs) ==
    /\ Begin("symbols",
             Input(<<>>, <<>>, <<>>, <<>>, 0, futures, testnet, timeoutMs),
             EmptyString, SymbolsResult, 0)
    /\ UNCHANGED chart

InvokeFetchKlines(symbol, interval, futures, testnet, limit, timeoutMs) ==
    /\ Begin("klines",
             Input(<<>>, <<>>, symbol, interval, limit, futures, testnet, timeoutMs),
             klinesInputError(symbol, interval), KlinesResult, 0)
    /\ UNCHANGED chart

\* QNetworkReply::finished of the request of frame i, delivered by the
\* innermost loop; the signal is connected to that frame's loop.quit
ReplyFinished(i, r) ==
    /\ i \in 1..Len(stack)
    /\ ~stack[i].replyFinished
    /\ stack' = [stack EXCEPT ![i].replyFinished = TRUE,
                              ![i].netError = r.netError,
                              ![i].payload = r.payload,
                              ![i].quit = TRUE]
    /\ inflight' = inflight \ {stack[i].id}
    /\ last' = NoResult
    /\ UNCHANGED <<now, calls>>
    /\ UNCHANGED <<wsVars, uiVars, chart>>

\* QTimer::timeout of the single-shot timer of frame i
TimerTimeout(i) ==
    /\ i \in 1..Len(stack)
    /\ ~stack[i].timerFired
    /\ now >= stack[i].deadline
    /\ stack' = [stack EXCEPT ![i].timerFired = TRUE, ![i].quit = TRUE]
    /\ last' = NoResult
    /\ UNCHANGED <<now, inflight, calls>>
    /\ UNCHANGED <<wsVars, uiVars, chart>>

\* the rest of the fetch operation of frame f once httpGetJson has returned
Finish(f, http) ==
    CASE f.op = "balance" -> fetchUsdtBalance(http, f.input.futures)
      [] f.op = "symbols" -> fetchUsdtSymbols(http, f.input.futures)
      [] f.op = "klines"  -> fetchKlines(http, toUpper(trimmed(f.input.symbol)),
                                         trimmed(f.input.interval))

\* loop.exec() of the innermost call returns once its loop was told to quit;
\* httpGetJson and the fetch operation that called it run to their end.  The
\* reply is aborted or finished and the local QNetworkAccessManager is
\* destroyed, so the request is no longer open.  A refresh of the chart page
\* that called the fetch operation goes on with the result.
Return ==
    /\ stack # <<>>
    /\ Top.quit
    /\ LET f == Top
           http == httpGetJson(f)
           rest == SubSeq(stack, 1, Len(stack) - 1) IN
       /\ last' = [op |-> f.op, id |-> f.id, input |-> f.input, gets |-> f.gets,
                   signatures |-> f.signatures, called |-> TRUE, http |-> http,
                   replyFinished |-> f.replyFinished, netError |-> f.netError,
                   payload |-> f.payload, start |-> f.start, end |-> now,
                   nestedEnd |-> f.nestedEnd, result |-> Finish(f, http)]
       /\ stack' = IF rest = <<>> THEN rest
                   ELSE [rest EXCEPT ![Len(rest)].nestedEnd = now]
       /\ inflight' = inflight \ {f.id}
       /\ chart' = IF chart.refreshes # <<>>
                      /\ chart.refreshes[Len(chart.refreshes)].id = f.id
                   THEN refreshOriginalShow(chart, Finish(f, http))
                   ELSE chart
    /\ UNCHANGED <<now, calls>>
    /\ UNCHANGED <<wsVars, uiVars>>

\* Time passes.  A due timer fires and a loop that was told to quit returns
\* before the clock moves on.
Tick ==
    /\ now < MaxTicks * TickMs
    /\ \A i \in 1..Len(stack) : stack[i].timerFired \/ now < stack[i].deadline
    /\ stack # <<>> => ~Top.quit
    /\ now' = now + TickMs
    /\ last' = NoResult
    /\ UNCHANGED <<stack, inflight, calls>>
    /\ UNCHANGED <<wsVars, uiVars, chart>>

\* The operations invoked one after another by the idle application, with
\* every input and every reply.
Next ==
    \/ \E c \in 1..Len(Credentials), m \in Markets :
          /\ stack = <<>>
          /\ InvokeFetchUsdtBalance(Credentials[c][1], Credentials[c][2],
                                    m[1], m[2], m[3])
    \/ \E m \in Markets :
          /\ stack = <<>>
          /\ InvokeFetchUsdtSymbols(m[1], m[2], m[3])
    \/ \E k \in 1..Len(KlineArgs), m \in Markets :
          /\ stack = <<>>
          /\ InvokeFetchKlines(KlineArgs[k][1], KlineArgs[k][2], m[1], m[2],
                               KlineArgs[k][3], m[3])
    \/ \E i \in 1..Len(stack) :
          \E k \in 1..Len(Replies(stack[i].op)) :
             ReplyFinished(i, Replies(stack[i].op)[k])
    \/ \E i \in 1..Len(stack) : TimerTimeout(i)
    \/ Return
    \/ Tick

Spec == Init /\ [][Next]_vars

\* The operations invoked by the handlers of the chart page (a changed combo
\* box loads the symbols and refreshes the candles), also from inside the
\* waiting loop of a call that has not returned: live futures market, a
\* timeout below and one above the floor of the timer.
HandlerMarkets == {<<TRUE, FALSE, timeoutMs>> : timeoutMs \in Timeouts \ {0}}
HandlerKlineArgs == KlineArgs[Len(KlineArgs)]

NextLoop ==
    \/ \E m \in HandlerMarkets :
          InvokeFetchUsdtSymbols(m[1], m[2], m[3])
    \/ \E m \in HandlerMarkets :
          InvokeFetchKlines(HandlerKlineArgs[1], HandlerKlineArgs[2], m[1], m[2],
                            HandlerKlineArgs[3], m[3])
    \/ \E i \in 1..Len(stack) :
          \E k \in 1..Len(NestedReplies(stack[i].op)) :
             ReplyFinished(i, NestedReplies(stack[i].op)[k])
    \/ \E i \in 1..Len(stack) : TimerTimeout(i)
    \/ Return
    \/ Tick

SpecLoop == Init /\ [][NextLoop]_vars

\* ------------------------------------------------- the steps of the client
\* <<symbol, futures, testnet>>
WsSubscriptions == <<
    << <<>>, FALSE, FALSE >>,
    << <<" ", "\t">>, TRUE, FALSE >>,
    << <<"b","t","c","u","s","d","t">>, FALSE, FALSE >>,
    << <<" ","E","T","H"," ","U","S","D","T"," ">>, TRUE, FALSE >>,
    << ETHUSDT, TRUE, TRUE >>,
    << BTCUSDT, FALSE, TRUE >>,
    << <<"B","t","c","\t","u","s","d","t">>, FALSE, FALSE >> >>

\* the text frames the server sends
WsFrames == <<
    JsonBody(JObj([s |-> JStr(BTCUSDT), b |-> Num10, a |-> Num20])),
    JsonBody(JObj([s |-> JStr(ETHUSDT), b |-> JNum(10), a |-> JNum(20)])),
    JsonBody(JObj([s |-> JStr(BTCUSDT)])),
    JsonBody(JObj([s |-> JStr(BTCUSDT), b |-> Num10])),
    JsonBody(JObj([s |-> JStr(<<>>), b |-> Num10, a |-> Num20])),
    JsonBody(JObj([s |-> JNum(5), b |-> Num10, a |-> Num20])),
    JsonBody(JObj([s |-> JStr(BTCUSDT), b |-> NotANumber, a |-> Num20])),
    JsonBody(JObj([s |-> JStr(BTCUSDT), b |-> Num10, a |-> JNull])),
    JsonBody(JArr(<<JStr(BTCUSDT), Num10, Num20>>)),
    Body(Lit("pong"), NotJson) >>

\* QWebSocket::errorString() of the transport errors
WsErrors == {Lit("Connection refused"), Lit("The remote host closed the connection")}

\* the step ends with outcome o of the calls made on the socket
WsTake(op, arg, effects, o) ==
    /\ socket_' = o.socket
    /\ connections' = o.conns
    /\ wsStep' = Step(op, arg, socket_.state, effects.calls, o.events)

WsOutcomes(effects) ==
    perform({Outcome(socket_, connections, wsCalls.open, effects.events)},
            effects.calls)

\* the caller subscribes
ConnectBookTicker(symbol, futures, testnet) ==
    /\ wsCalls.connectBookTicker < MaxWsCalls
    /\ LET effects == connectBookTicker(symbol, futures, testnet, socket_.state) IN
       \E o \in WsOutcomes(effects) :
          /\ WsTake("connectBookTicker", <<symbol, futures, testnet>>, effects, o)
          /\ wsCalls' = [connectBookTicker |-> wsCalls.connectBookTicker + 1,
                         open |-> o.opens]
    /\ UNCHANGED <<restVars, uiVars, chart>>

\* the caller unsubscribes
DisconnectFromStream ==
    /\ LET effects == disconnectFromStream(socket_.state) IN
       \E o \in WsOutcomes(effects) :
          /\ WsTake("disconnectFromStream", <<>>, effects, o)
          /\ wsCalls' = [wsCalls EXCEPT !.open = o.opens]
    /\ UNCHANGED <<restVars, uiVars, chart>>

IsAttached == socket_.current \in DOMAIN connections

\* the handshake of the connection of the socket has succeeded
SocketConnected ==
    /\ socket_.state = "ConnectingState"
    /\ IsAttached
    /\ connections[socket_.current].status = "connecting"
    /\ socket_' = [socket_ EXCEPT !.state = "ConnectedState"]
    /\ connections' = [connections EXCEPT ![socket_.current].status = "open"]
    /\ wsStep' = Step("connected", <<>>, socket_.state, <<>>, connected.events)
    /\ UNCHANGED wsCalls
    /\ UNCHANGED <<restVars, uiVars, chart>>

\* the socket is unconnected again, its connection is gone
Dropped == Outcome([socket_ EXCEPT !.state = "UnconnectedState"],
                   Without(connections, socket_.current), wsCalls.open, <<>>)

\* a close that the client has asked for is completed
CloseCompleted ==
    /\ IsAttached
    /\ connections[socket_.current].status = "closing"
    /\ WsTake("disconnected", <<>>, disconnected,
              [Dropped EXCEPT !.events = disconnected.events])
    /\ UNCHANGED wsCalls
    /\ UNCHANGED <<restVars, uiVars, chart>>

\* the server closes the connection
RemoteClose ==
    /\ socket_.state = "ConnectedState"
    /\ IsAttached
    /\ WsTake("remoteClose", <<>>, disconnected,
              [Dropped EXCEPT !.events = disconnected.events])
    /\ UNCHANGED wsCalls
    /\ UNCHANGED <<restVars, uiVars, chart>>

\* a text frame arrives on the open connection
TextMessageReceived(message) ==
    /\ socket_.state = "ConnectedState"
    /\ IsAttached
    /\ LET effects == textMessageReceived(message) IN
       \E o \in WsOutcomes(effects) :
          /\ WsTake("textMessageReceived", message, effects, o)
          /\ wsCalls' = [wsCalls EXCEPT !.open = o.opens]
    /\ UNCHANGED <<restVars, uiVars, chart>>

\* a transport error: the socket reports it and its connection is lost, the
\* two signals in either order
SocketError(errorString, errorFirst) ==
    /\ socket_.state # "UnconnectedState"
    /\ IsAttached
    /\ LET effects == errorOccurred(errorString, socket_.requestUrl)
           events == IF errorFirst THEN effects.events \o disconnected.events
                     ELSE disconnected.events \o effects.events IN
       \E o \in perform({[Dropped EXCEPT !.events = events]}, effects.calls) :
          /\ WsTake("errorOccurred", errorString, effects, o)
          /\ wsCalls' = [wsCalls EXCEPT !.open = o.opens]
    /\ UNCHANGED <<restVars, uiVars, chart>>

\* a connection that the socket has let go of is deleted
DeferredDelete(id) ==
    /\ id \in DOMAIN connections
    /\ id # socket_.current
    /\ connections' = Without(connections, id)
    /\ wsStep' = Step("deleteLater", <<>>, socket_.state, <<>>, <<>>)
    /\ UNCHANGED <<socket_, wsCalls>>
    /\ UNCHANGED <<restVars, uiVars, chart>>

NextWs ==
    \/ \E k \in 1..Len(WsSubscriptions) :
          ConnectBookTicker(WsSubscriptions[k][1], WsSubscriptions[k][2],
                            WsSubscriptions[k][3])
    \/ DisconnectFromStream
    \/ SocketConnected
    \/ CloseCompleted
    \/ RemoteClose
    \/ \E k \in 1..Len(WsFrames) : TextMessageReceived(WsFrames[k])
    \/ \E errorString \in WsErrors, errorFirst \in BOOLEAN :
          SocketError(errorString, errorFirst)
    \/ \E id \in DOMAIN connections : DeferredDelete(id)

SpecWs == Init /\ [][NextWs]_vars

\* ------------------------------------------- the calls of the symbol normaliser
\* texts of a symbol combo box, of a list entry and of a caller
ChartSymbolInputs == {
    <<>>, <<" ">>, <<"b","t","c","u","s","d","t">>, BTCUSDT,
    <<" ","e","t","h","u","s","d","t","\t">>,
    <<"B","T","C","/","U","S","D","T">>, <<"b","t","c","/","u","s","d","t",".","p">>,
    BTCUSDT \o FuturesSuffix, <<"b","t","c","u","s","d","t",".","p">>,
    BTCUSDT \o FuturesSuffix \o FuturesSuffix, FuturesSuffix,
    <<"B","T","C"," ","/">>, <<"/"," ","B","T","C">>, <<"B","T","C",".","/","P">>,
    <<"B","T","C"," ",".","P">> }

\* the part of a spot symbol before its quote asset
SpotBases == { <<"X">>, <<"B","T","C">>, <<"E","T","H","B">>, <<"F","D">>, <<"T">> }

\* spot symbols: every base with every quote asset, and some of another form
SpotSymbolInputs ==
    {base \o quoteAssets[q] : base \in SpotBases, q \in 1..Len(quoteAssets)}
    \cup {quoteAssets[q] : q \in 1..Len(quoteAssets)}
    \cup { <<>>, <<"B","T","C","_","U","S","D","T">>, <<"B","T","C","X","Y","Z">>,
           <<"_">> }

NormalizeChartSymbol(symbol) ==
    /\ symbolCall' = SymbolCall("normalizeChartSymbol", symbol,
                                normalizeChartSymbol(symbol), <<>>)
    /\ UNCHANGED <<restVars, wsVars, chart>>

\* the canonical symbol just computed is shown in its futures display form
FuturesDisplay ==
    /\ symbolCall.fn = "normalizeChartSymbol"
    /\ symbolCall' = SymbolCall("futuresDisplay", symbolCall.output,
                                futuresDisplay(symbolCall.output), symbolCall.output)
    /\ UNCHANGED <<restVars, wsVars, chart>>

\* the display form just shown is canonicalised
NormalizeDisplayed ==
    /\ symbolCall.fn = "futuresDisplay"
    /\ symbolCall' = SymbolCall("normalizeDisplayed", symbolCall.output,
                                normalizeChartSymbol(symbolCall.output),
                                symbolCall.canonical)
    /\ UNCHANGED <<restVars, wsVars, chart>>

SpotSymbolWithUnderscore(symbol) ==
    /\ symbolCall' = SymbolCall("spotSymbolWithUnderscore", symbol,
                                spotSymbolWithUnderscore(symbol), <<>>)
    /\ UNCHANGED <<restVars, wsVars, chart>>

NextSymbols ==
    \/ \E symbol \in ChartSymbolInputs : NormalizeChartSymbol(symbol)
    \/ FuturesDisplay
    \/ NormalizeDisplayed
    \/ \E symbol \in SpotSymbolInputs : SpotSymbolWithUnderscore(symbol)

SpecSymbols == Init /\ [][NextSymbols]_vars

\* ----------------------------------------------- the handlers of the chart page
\* the entries of the symbol combo box and of the interval combo box
ChartSymbols == {BTCUSDT, ETHUSDT}
ChartIntervals == {OneMinute, <<"5","m">>}

\* refreshOriginal up to the call of fetchKlines, on the page c
RefreshOriginal(c) ==
    LET rawSymbol == normalizeChartSymbol(
                         currentRawSymbol(c.symbol,
                                          IF c.futures THEN futuresDisplay(c.symbol)
                                          ELSE c.symbol))
        interval == trimmed(c.interval)
        inputError == klinesInputError(rawSymbol, interval)
        refresh == Refresh(calls + 1, rawSymbol, interval) IN
    IF isEmpty(rawSymbol)
    THEN /\ chart' = [c EXCEPT !.status = Lit("Select a symbol, then refresh."),
                               !.candles = <<>>,
                               !.overlay = Lit("Symbol is required.")]
         /\ UNCHANGED <<restVars, wsVars, uiVars>>
    ELSE /\ Begin("klines",
                  Input(<<>>, <<>>, rawSymbol, interval, ChartKlineLimit,
                        c.futures, FALSE, ChartTimeoutMs),
                  inputError, KlinesResult, 0)
         /\ chart' =
               LET started == [c EXCEPT !.refreshes = Append(@, refresh),
                                        !.latest = refresh.id] IN
               IF isEmpty(inputError) THEN started
               ELSE refreshOriginalShow(started,
                                        [KlinesResult EXCEPT !.error = inputError])

\* the user picks another symbol: currentTextChanged runs refreshCurrent
SymbolChanged(symbol) ==
    /\ symbol # chart.symbol
    /\ RefreshOriginal([chart EXCEPT !.symbol = symbol])

\* the user picks another interval: currentTextChanged runs refreshCurrent
IntervalChanged(interval) ==
    /\ interval # chart.interval
    /\ RefreshOriginal([chart EXCEPT !.interval = interval])

\* the user clicks Refresh
RefreshClicked == RefreshOriginal(chart)

\* The handlers run from the idle page and from inside the waiting loop of a
\* refresh that has not returned.
NextChart ==
    \/ \E symbol \in ChartSymbols : SymbolChanged(symbol)
    \/ \E interval \in ChartIntervals : IntervalChanged(interval)
    \/ RefreshClicked
    \/ \E i \in 1..Len(stack) :
          \E k \in 1..Len(NestedReplies(stack[i].op)) :
             ReplyFinished(i, NestedReplies(stack[i].op)[k])
    \/ \E i \in 1..Len(stack) : TimerTimeout(i)
    \/ Return
    \/ Tick

SpecChart == Init /\ [][NextChart]_vars

\* ================================================================== claims
\* Vocabulary of the properties: the call that has just returned.
Returned == last.op # "none"
HttpReturned == Returned /\ last.called

HttpSuccess == ~last.http.document.isNull /\ isEmpty(last.http.error)
HttpTimeout == last.http.document.isNull /\ last.http.error = Lit("Request timeout")
HttpProtocolError ==
    last.http.document.isNull /\ last.http.error = Lit("Invalid JSON response")
HttpNetworkError ==
    /\ last.http.document.isNull
    /\ last.netError.code # "NoError"
    /\ Len(last.http.error) >= Len(last.netError.errorString)
    /\ SubSeq(last.http.error, 1, Len(last.netError.errorString))
          = last.netError.errorString

\* C1: every return of httpGetJson is exactly one of success (a document and
\* no error text), Timeout, NetworkError and ProtocolError, and a null
\* document never comes with an empty error text.
C1_ExactlyOneOutcome ==
    HttpReturned =>
        /\ Cardinality({k \in 1..4 :
              <<HttpSuccess, HttpTimeout, HttpNetworkError, HttpProtocolError>>[k]}) = 1
        /\ last.http.document.isNull => ~isEmpty(last.http.error)
        /\ ~last.http.document.isNull => isEmpty(last.http.error)

C1_Witness ==
    /\ HttpReturned
    /\ HttpNetworkError
    /\ ~isEmpty(last.payload.bytes)

\* The deadline the timer of the returned call was given, spelled out.
TimerDeadline ==
    last.start + (IF last.input.timeoutMs < 1000 THEN 1000 ELSE last.input.timeoutMs)

NeverAnswered == HttpReturned /\ ~last.replyFinished

C3_NoRequestLeftOpen ==
    /\ (HttpReturned /\ last.http.error = Lit("Request timeout"))
          => last.http.reply = "aborted"
    /\ HttpReturned => last.http.reply \in {"aborted", "finished"}
    /\ HttpReturned => last.id \notin inflight
    /\ inflight \subseteq {stack[i].id : i \in 1..Len(stack)}

C3_Witness ==
    /\ HttpReturned
    /\ HttpTimeout
    /\ last.http.reply = "aborted"
    /\ stack # <<>>
    /\ inflight # {}

\* C4: a finished reply is classified by a fixed priority.  A transport error
\* gives NetworkError with the transport's text, followed by " | " and the
\* body only when a body was received, whether or not the body is JSON; only
\* without a transport error does a body that is no JSON document give
\* ProtocolError; Timeout is reported only for a reply that had not finished.
C4_ErrorPriority ==
    HttpReturned =>
        /\ last.replyFinished =>
              IF last.netError.code # "NoError"
              THEN /\ last.http.document.isNull
                   /\ last.http.error =
                        IF last.payload.bytes = <<>>
                        THEN last.netError.errorString
                        ELSE last.netError.errorString \o <<" | ">>
                             \o last.payload.bytes
              ELSE IF last.payload.tree.t \notin {"object", "array"}
              THEN HttpProtocolError
              ELSE /\ HttpSuccess
                   /\ last.http.document.root = last.payload.tree
        /\ HttpTimeout => ~last.replyFinished

C4_Witness ==
    /\ HttpReturned
    /\ last.netError.code # "NoError"
    /\ last.payload.tree.t = "object"
    /\ HttpNetworkError
    /\ ~HttpProtocolError

\* The payload of a result, whatever the operation.
PayloadIsDefault ==
    CASE last.op = "balance" -> last.result.usdtBalance = Dbl(0)
      [] last.op = "symbols" -> last.result.symbols = <<>>
      [] last.op = "klines"  -> last.result.candles = <<>>

\* C5: every result populates exactly one variant: ok has no error text; a
\* failure has a non-empty error text and the default payload, for every
\* response of the server (an error envelope with an empty msg included).
C5_ExactlyOneVariant ==
    Returned =>
        /\ last.result.ok => isEmpty(last.result.error)
        /\ ~last.result.ok => (~isEmpty(last.result.error) /\ PayloadIsDefault)

\* Text that is not blank: it has a character that is no white space.
HasText(s) == \E i \in 1..Len(s) : ~IsSpace(s[i])

InputPasses(op, input) ==
    CASE op = "balance" -> HasText(input.apiKey) /\ HasText(input.apiSecret)
      [] op = "symbols" -> TRUE
      [] op = "klines"  -> HasText(input.symbol) /\ HasText(input.interval)

\* C6: no retries.  An invocation issues one GET when its input passes the
\* validation and none when it does not, and it returns its result after a
\* failure of that one request without another GET.
C6_AtMostOneGet ==
    /\ Returned =>
          /\ last.gets = (IF InputPasses(last.op, last.input) THEN 1 ELSE 0)
          /\ last.called <=> last.gets = 1
    /\ \A i \in 1..Len(stack) :
          stack[i].gets = 1 /\ InputPasses(stack[i].op, stack[i].input)
    /\ Len(stack) + Cardinality({last.id} \ {0}) <= calls

C6_Witness ==
    /\ Returned
    /\ last.op = "klines"
    /\ HasText(last.input.symbol)
    /\ ~HasText(last.input.interval)
    /\ last.gets = 0
    /\ ~last.result.ok

\* C7: fetchUsdtBalance with a blank (empty or white-space) apiKey or
\* apiSecret fails with "Missing API credentials", computes no signature and
\* issues no request.
C7_MissingCredentials ==
    /\ (Returned /\ last.op = "balance"
        /\ (~HasText(last.input.apiKey) \/ ~HasText(last.input.apiSecret)))
          => /\ ~last.result.ok
             /\ last.result.error = Lit("Missing API credentials")
             /\ last.signatures = 0
             /\ last.gets = 0
             /\ ~last.called
    /\ \A i \in 1..Len(stack) :
          stack[i].op = "balance"
             => HasText(stack[i].input.apiKey) /\ HasText(stack[i].input.apiSecret)

C7_Witness ==
    /\ Returned
    /\ last.op = "balance"
    /\ ~isEmpty(last.input.apiKey)
    /\ ~HasText(last.input.apiKey)
    /\ last.result.error = Lit("Missing API credentials")

\* The transport succeeded and the body is a JSON object.
ObjectReceived ==
    /\ HttpReturned
    /\ last.replyFinished
    /\ last.netError.code = "NoError"
    /\ last.payload.tree.t = "object"

ReceivedObject == last.payload.tree.v

\* ... and the object has no error envelope.
AccountReceived == ObjectReceived /\ "msg" \notin DOMAIN ReceivedObject

\* The entries the balance is looked up in, and the fields that may hold it.
AccountEntries ==
    IF last.input.futures
    THEN toArray(value(ReceivedObject, "assets"))
    ELSE toArray(value(ReceivedObject, "balances"))

AccountFields ==
    IF last.input.futures
    THEN <<"walletBalance", "marginBalance", "availableBalance">>
    ELSE <<"free">>

IsUsdtEntry(e) == e.t = "object" /\ value(e.v, "asset") = JStr(USDT)
FieldPresent(e, key) == key \in DOMAIN toObject(e)
FieldNumber(e, key) == parseJsonNumber(value(toObject(e), key))
HasNumber(e) == \E k \in 1..Len(AccountFields) : FieldNumber(e, AccountFields[k]).ok

FuturesBalanceFound ==
    /\ Returned
    /\ last.op = "balance"
    /\ last.input.futures
    /\ last.result.ok

\* C8 as claimed: the futures balance is the value of the first field present
\* in the USDT entry, in the order walletBalance, marginBalance,
\* availableBalance: a later field only when every earlier one is absent.
C8_FirstPresentWins ==
    FuturesBalanceFound =>
        \E i \in 1..Len(AccountEntries) :
            /\ IsUsdtEntry(AccountEntries[i])
            /\ \E k \in 1..Len(AccountFields) :
                  /\ FieldPresent(AccountEntries[i], AccountFields[k])
                  /\ \A j \in 1..(k - 1) :
                        ~FieldPresent(AccountEntries[i], AccountFields[j])
                  /\ FieldNumber(AccountEntries[i], AccountFields[k]).ok
                  /\ last.result.usdtBalance
                        = FieldNumber(AccountEntries[i], AccountFields[k]).value

\* C8 amended: the futures balance is the value of the first field that
\* converts to a number, in the order walletBalance, marginBalance,
\* availableBalance, of the first USDT entry that has such a field: a later
\* field only when every earlier one is absent or converts to no number.
C8_FirstNumberWins ==
    FuturesBalanceFound =>
        \E i \in 1..Len(AccountEntries) :
            /\ IsUsdtEntry(AccountEntries[i])
            /\ \A h \in 1..(i - 1) :
                  IsUsdtEntry(AccountEntries[h]) => ~HasNumber(AccountEntries[h])
            /\ \E k \in 1..Len(AccountFields) :
                  /\ FieldNumber(AccountEntries[i], AccountFields[k]).ok
                  /\ \A j \in 1..(k - 1) :
                        ~FieldNumber(AccountEntries[i], AccountFields[j]).ok
                  /\ last.result.usdtBalance
                        = FieldNumber(AccountEntries[i], AccountFields[k]).value

C8_Witness ==
    /\ FuturesBalanceFound
    /\ AccountEntries = <<Asset(USDT, [walletBalance |-> Num10,
                                       marginBalance |-> Num20,
                                       availableBalance |-> Num30])>>
    /\ last.result.usdtBalance = Dbl(10)

\* C9: when the transport succeeded and the response object has a msg member,
\* fetchUsdtBalance and fetchUsdtSymbols fail with that message (a msg that
\* is no text is reported as "Binance API error") and never succeed, whatever
\* balances or symbols the object also holds.
C9_EnvelopeAlwaysFails ==
    (ObjectReceived /\ last.op \in {"balance", "symbols"}
     /\ "msg" \in DOMAIN ReceivedObject)
        => /\ ~last.result.ok
           /\ PayloadIsDefault
           /\ last.result.error =
                 IF ReceivedObject["msg"].t = "string"
                 THEN ReceivedObject["msg"].v
                 ELSE Lit("Binance API error")

C9_Witness ==
    /\ ObjectReceived
    /\ last.op = "balance"
    /\ "msg" \in DOMAIN ReceivedObject
    /\ \E i \in 1..Len(AccountEntries) :
          IsUsdtEntry(AccountEntries[i]) /\ HasNumber(AccountEntries[i])
    /\ ~last.result.ok
    /\ last.result.error = Lit("Invalid API-key, IP, or permissions for action.")

BalanceReturned == HttpReturned /\ last.op = "balance"
NotFound == last.result.error = Lit("USDT balance not found")

\* C10 as claimed: "USDT balance not found" exactly when the response is an
\* object without error envelope that has no USDT entry; with a USDT entry
\* the spot result is the free balance of that entry.
C10_NotFoundIffNoEntry ==
    BalanceReturned =>
        /\ NotFound <=>
              (AccountReceived
               /\ ~\E i \in 1..Len(AccountEntries) : IsUsdtEntry(AccountEntries[i]))
        /\ (AccountReceived /\ ~last.input.futures
            /\ \E i \in 1..Len(AccountEntries) : IsUsdtEntry(AccountEntries[i]))
              => \E i \in 1..Len(AccountEntries) :
                    /\ IsUsdtEntry(AccountEntries[i])
                    /\ last.result.ok
                    /\ FieldNumber(AccountEntries[i], "free").ok
                    /\ last.result.usdtBalance
                          = FieldNumber(AccountEntries[i], "free").value

\* C10 amended: "USDT balance not found" exactly when the response is an
\* object without error envelope in which no USDT entry has a balance field
\* that converts to a number (futures: walletBalance, marginBalance,
\* availableBalance; spot: free); otherwise the spot result is the free
\* balance of the first USDT entry whose free converts to a number.
C10_NotFoundIffNoNumber ==
    BalanceReturned =>
        /\ NotFound <=>
              (AccountReceived
               /\ ~\E i \in 1..Len(AccountEntries) :
                     IsUsdtEntry(AccountEntries[i]) /\ HasNumber(AccountEntries[i]))
        /\ (AccountReceived /\ ~last.input.futures)
              => \A i \in 1..Len(AccountEntries) :
                    (/\ IsUsdtEntry(AccountEntries[i])
                     /\ HasNumber(AccountEntries[i])
                     /\ \A h \in 1..(i - 1) :
                           IsUsdtEntry(AccountEntries[h])
                              => ~HasNumber(AccountEntries[h]))
                    => /\ last.result.ok
                       /\ last.result.usdtBalance
                             = FieldNumber(AccountEntries[i], "free").value

C10_Witness ==
    /\ BalanceReturned
    /\ AccountReceived
    /\ ~last.input.futures
    /\ Len(AccountEntries) = 2
    /\ IsUsdtEntry(AccountEntries[1])
    /\ ~HasNumber(AccountEntries[1])
    /\ last.result.ok
    /\ last.result.usdtBalance = Dbl(3)

\* The catalog that a returned fetchUsdtSymbols received: the transport
\* succeeded and the body is a JSON object without an error envelope.
SymbolsReturned == HttpReturned /\ last.op = "symbols"
CatalogReceived ==
    SymbolsReturned /\ ObjectReceived /\ "msg" \notin DOMAIN ReceivedObject

CatalogEntries ==
    IF "symbols" \in DOMAIN ReceivedObject /\ ReceivedObject["symbols"].t = "array"
    THEN ReceivedObject["symbols"].v ELSE <<>>

\* the text of field k of a catalog entry, empty when it has no such text
EntryText(e, k) ==
    IF e.t = "object" /\ k \in DOMAIN e.v /\ e.v[k].t = "string"
    THEN e.v[k].v ELSE <<>>

StatusNames == {<<"T","R","A","D","I","N","G">>,
                <<"P","E","N","D","I","N","G","_","T","R","A","D","I","N","G">>}
ContractNames == {<<"P","E","R","P","E","T","U","A","L">>,
                  <<"C","U","R","R","E","N","T","_","Q","U","A","R","T","E","R">>,
                  <<"N","E","X","T","_","Q","U","A","R","T","E","R">>}

\* the filter as claimed: the three fields are exactly the listed names
EntryListed(e, futures) ==
    /\ EntryText(e, "quoteAsset") = <<"U","S","D","T">>
    /\ EntryText(e, "status") \in StatusNames
    /\ futures => EntryText(e, "contractType") \in ContractNames

\* the filter with status and contract type compared ignoring letter case
EntryListedIgnoringCase(e, futures) ==
    /\ EntryText(e, "quoteAsset") = <<"U","S","D","T">>
    /\ toUpper(EntryText(e, "status")) \in StatusNames
    /\ futures => toUpper(EntryText(e, "contractType")) \in ContractNames

ReturnedSymbols == {last.result.symbols[i] : i \in 1..Len(last.result.symbols)}

\* C11 as claimed: a successful fetchUsdtSymbols returns exactly the symbol
\* names of the entries whose quote asset is USDT, whose status is TRADING or
\* PENDING_TRADING and, for futures only, whose contract type is PERPETUAL,
\* CURRENT_QUARTER or NEXT_QUARTER; no entry with another status is returned.
C11_ExactlyListedEntries ==
    (SymbolsReturned /\ last.result.ok) =>
        ReturnedSymbols =
            {EntryText(CatalogEntries[i], "symbol") :
                i \in {j \in 1..Len(CatalogEntries) :
                          EntryListed(CatalogEntries[j], last.input.futures)}}

\* C11 amended: a fetchUsdtSymbols succeeds exactly when it received a catalog
\* without error envelope, and it then returns exactly the non-empty symbol
\* names of the entries whose quote asset is exactly USDT, whose status is
\* TRADING or PENDING_TRADING in any letter case and, for futures only, whose
\* contract type is PERPETUAL, CURRENT_QUARTER or NEXT_QUARTER in any letter
\* case; for spot the contract type has no influence.
C11_ListedIgnoringCase ==
    SymbolsReturned =>
        /\ last.result.ok <=> CatalogReceived
        /\ last.result.ok =>
              ReturnedSymbols =
                  {EntryText(CatalogEntries[i], "symbol") :
                      i \in {j \in 1..Len(CatalogEntries) :
                                EntryListedIgnoringCase(CatalogEntries[j],
                                                        last.input.futures)}}
                  \ {<<>>}

C11_Witness ==
    /\ SymbolsReturned
    /\ last.result.ok
    /\ ~last.input.futures
    /\ \E i \in 1..Len(CatalogEntries) :
          /\ EntryListedIgnoringCase(CatalogEntries[i], FALSE)
          /\ ~EntryListedIgnoringCase(CatalogEntries[i], TRUE)
          /\ EntryText(CatalogEntries[i], "symbol") \in ReturnedSymbols
    /\ \E i \in 1..Len(CatalogEntries) :
          /\ EntryListedIgnoringCase(CatalogEntries[i], FALSE)
          /\ EntryText(CatalogEntries[i], "symbol") = <<>>
    /\ \E i \in 1..Len(CatalogEntries) :
          EntryText(CatalogEntries[i], "quoteAsset") = <<"u","s","d","t">>

\* the catalog payloads with the entries of the received one in every order,
\* also with one of them repeated
Rearrangements ==
    LET n == Len(CatalogEntries)
        orders == {f \in UNION {[1..k -> 1..n] : k \in n..(n + 1)} :
                      {f[i] : i \in DOMAIN f} = 1..n} IN
    {[i \in DOMAIN f |-> CatalogEntries[f[i]]] : f \in orders}

\* what fetchUsdtSymbols returns for the received catalog with entries seq
SymbolsOf(seq) ==
    fetchUsdtSymbols(
        [last.http EXCEPT !.document.root =
            JObj([k \in DOMAIN ReceivedObject \cup {"symbols"} |->
                    IF k = "symbols" THEN JArr(seq) ELSE ReceivedObject[k]])],
        last.input.futures).symbols

\* C12: the list of a successful fetchUsdtSymbols is strictly ascending in
\* the order of QString (hence without duplicates), and the catalog with its
\* entries permuted or repeated yields the identical list.
C12_SortedAndOrderFree ==
    (SymbolsReturned /\ last.result.ok) =>
        /\ \A i \in 1..(Len(last.result.symbols) - 1) :
              stringLess(last.result.symbols[i], last.result.symbols[i + 1])
        /\ \A i, j \in 1..Len(last.result.symbols) :
              i # j => last.result.symbols[i] # last.result.symbols[j]
        /\ \A seq \in Rearrangements : SymbolsOf(seq) = last.result.symbols

C12_Witness ==
    /\ SymbolsReturned
    /\ last.result.ok
    /\ Len(last.result.symbols) = 2
    /\ Len(CatalogEntries) = 3
    /\ EntryText(CatalogEntries[1], "symbol") = EntryText(CatalogEntries[3], "symbol")
    /\ stringLess(EntryText(CatalogEntries[2], "symbol"),
                  EntryText(CatalogEntries[1], "symbol"))
    /\ Cardinality(Rearrangements) > 6

\* the value of the limit parameter written into the URL of a kline request
UrlLimit(f) == DecimalValue(f.request.limit)

\* C13: for every limit passed to fetchKlines (negative, zero, below 10, in
\* range, above 1000) the limit parameter of the request URL is
\* min(max(limit, 10), 1000): no request is sent with a limit outside
\* 10..1000.
C13_LimitClamped ==
    \A i \in 1..Len(stack) :
        stack[i].op = "klines" =>
            /\ \A c \in 1..Len(stack[i].request.limit) :
                  IsDigit(stack[i].request.limit[c])
            /\ UrlLimit(stack[i]) =
                  (IF stack[i].input.limit < 10 THEN 10
                   ELSE IF stack[i].input.limit > 1000 THEN 1000
                   ELSE stack[i].input.limit)
            /\ UrlLimit(stack[i]) >= 10
            /\ UrlLimit(stack[i]) <= 1000

C13_Witness ==
    /\ Len(stack) = 1
    /\ stack[1].op = "klines"
    /\ stack[1].input.limit > 1000
    /\ stack[1].request.limit = <<"1","0","0","0">>
    /\ calls = 2
    /\ last = NoResult

\* The rows that a returned fetchKlines received: the transport succeeded and
\* the body is a JSON array.
KlinesReturned == HttpReturned /\ last.op = "klines"
RowsReceived ==
    /\ KlinesReturned
    /\ last.replyFinished
    /\ last.netError.code = "NoError"
    /\ last.payload.tree.t = "array"

ReceivedRows == last.payload.tree.v

\* a valid row: an array of at least 6 elements whose first element converts
\* to an integer and whose next five convert to a number, by the conversions
\* of QVariant (a JSON number, a text that spells a number, a boolean)
RowValid(e) ==
    /\ e.t = "array"
    /\ Len(e.v) >= 6
    /\ VariantToLongLong(e.v[1]).ok
    /\ \A k \in 2..6 : VariantToDouble(e.v[k]).ok

ValidRows == SelectSeq(ReceivedRows, RowValid)

CandleOf(e) ==
    [openTimeMs |-> VariantToLongLong(e.v[1]).value,
     open |-> VariantToDouble(e.v[2]).value, high |-> VariantToDouble(e.v[3]).value,
     low |-> VariantToDouble(e.v[4]).value, close |-> VariantToDouble(e.v[5]).value,
     volume |-> VariantToDouble(e.v[6]).value]

NoCandleData ==
    /\ ~last.result.ok
    /\ last.result.error # <<>>
    /\ Head(last.result.error) = "No candle data returned for "

\* C14: for an array response fetchKlines succeeds exactly when at least one
\* row is valid; the candles are then the valid rows, one candle per valid
\* row in the order of the response, whatever invalid rows stand between
\* them; the "No candle data returned" failure occurs only when an array
\* without any valid row was received.
C14_ValidRowsInOrder ==
    KlinesReturned =>
        /\ RowsReceived =>
              /\ last.result.ok <=> ValidRows # <<>>
              /\ last.result.ok =>
                    last.result.candles
                        = [i \in 1..Len(ValidRows) |-> CandleOf(ValidRows[i])]
              /\ ~last.result.ok => NoCandleData
        /\ NoCandleData => RowsReceived /\ ValidRows = <<>>
        /\ last.result.ok => RowsReceived

C14_Witness ==
    /\ KlinesReturned
    /\ RowsReceived
    /\ last.result.ok
    /\ Len(ReceivedRows) = 3
    /\ RowValid(ReceivedRows[1])
    /\ ~RowValid(ReceivedRows[2])
    /\ RowValid(ReceivedRows[3])
    /\ Len(last.result.candles) = 2
    /\ last.result.candles[2].openTimeMs = 3

\* C15 as claimed: every successful KlinesResult is non-empty and its candles
\* are in non-decreasing order of openTimeMs, whatever the server answered.
C15_NonEmptyOrdered ==
    (KlinesReturned /\ last.result.ok) =>
        /\ last.result.candles # <<>>
        /\ \A i \in 1..(Len(last.result.candles) - 1) :
              last.result.candles[i].openTimeMs
                  <= last.result.candles[i + 1].openTimeMs

\* the open times of the valid rows of the response, in response order
ValidRowTimes == [i \in 1..Len(ValidRows) |-> VariantToLongLong(ValidRows[i].v[1]).value]

NonDecreasing(seq) == \A i \in 1..(Len(seq) - 1) : seq[i] <= seq[i + 1]

\* C15 amended: every successful KlinesResult is non-empty and its candles
\* carry the open times of the valid rows in the order of the response, so
\* they are in non-decreasing order of openTimeMs whenever the valid rows of
\* the response are.
C15_OrderedAsReceived ==
    (KlinesReturned /\ last.result.ok) =>
        /\ last.result.candles # <<>>
        /\ RowsReceived
        /\ [i \in 1..Len(last.result.candles) |-> last.result.candles[i].openTimeMs]
              = ValidRowTimes
        /\ NonDecreasing(ValidRowTimes) =>
              \A i \in 1..(Len(last.result.candles) - 1) :
                  last.result.candles[i].openTimeMs
                      <= last.result.candles[i + 1].openTimeMs

C15_Witness ==
    /\ KlinesReturned
    /\ last.result.ok
    /\ RowsReceived
    /\ Len(ReceivedRows) = 2
    /\ NonDecreasing(ValidRowTimes)
    /\ Len(last.result.candles) = 2
    /\ last.result.candles[1].openTimeMs < last.result.candles[2].openTimeMs

\* a JSON number, or a text that spells a finite number
FiniteNumber(j) ==
    \/ j.t = "double"
    \/ /\ j.t = "string"
       /\ trimmed(j.v) # <<>>
       /\ \A c \in 1..Len(trimmed(j.v)) : IsDigit(trimmed(j.v)[c])

\* C16: every candle of a successful KlinesResult has a finite open, high,
\* low, close and volume, each the number its row spells: a row with a field
\* that is no finite number (text that is no number, null, NaN or infinity
\* spelled as text) yields no candle, and no field is replaced by a
\* substitute value.
C16_FiniteFields ==
    (KlinesReturned /\ last.result.ok) =>
        /\ \A i \in 1..Len(last.result.candles) :
              \A k \in {"open", "high", "low", "close", "volume"} :
                  last.result.candles[i][k].cls = "finite"
        /\ RowsReceived =>
              Len(last.result.candles)
                  <= Len(SelectSeq(ReceivedRows,
                         LAMBDA e : e.t = "array" /\ Len(e.v) >= 6
                                    /\ \A k \in 2..6 : FiniteNumber(e.v[k])))

\* ------------------------------------------------------------ BinanceWsClient
\* Vocabulary: the connections that exist, by what they are doing.
Live == DOMAIN connections
ConnectingOrOpen == {id \in Live : connections[id].status \in {"connecting", "open"}}

ConnectCalled == wsStep.op = "connectBookTicker"
Subscribed == ConnectCalled /\ wsStep.calls # <<>>

\* a connectBookTicker call made while the socket was not unconnected has
\* called close and then open, one made while it was unconnected only open
ClosedBeforeOpened ==
    Subscribed =>
        [i \in 1..Len(wsStep.calls) |-> wsStep.calls[i].method]
            = (IF wsStep.from = "UnconnectedState" THEN <<"open">>
               ELSE <<"close", "open">>)

\* C17 as claimed: in every reachable state at most one connection is live
\* (connecting, open or closing), and a connectBookTicker call made while a
\* connection is not unconnected closes it before the new one is opened.
C17_AtMostOneLive ==
    /\ Cardinality(Live) <= 1
    /\ ClosedBeforeOpened

\* C17 amended: in every reachable state at most one connection is connecting
\* or open, and it is the one the socket is attached to, the one opened last;
\* every other connection that still exists is closing.  A connectBookTicker
\* call made while the socket is not unconnected calls close on the old
\* connection before it opens the new one, and the old one may still be
\* closing while the new one is connecting.
C17_AtMostOneConnectingOrOpen ==
    /\ Cardinality(ConnectingOrOpen) <= 1
    /\ ConnectingOrOpen \subseteq {socket_.current}
    /\ \A id \in Live \ {socket_.current} : connections[id].status = "closing"
    /\ socket_.state = "UnconnectedState" => ConnectingOrOpen = {}
    /\ ClosedBeforeOpened

C17_Witness ==
    /\ Subscribed
    /\ wsStep.from = "ConnectedState"
    /\ socket_.state = "ConnectingState"
    /\ Cardinality(Live) = 2
    /\ Cardinality(ConnectingOrOpen) = 1
    /\ wsStep.events = <<>>

\* the frame of a textMessageReceived step as the JSON value it spells
FrameReceived == wsStep.op = "textMessageReceived"
FrameTree == wsStep.arg.tree

\* the frame is a JSON object with a non-empty text s and with b and a that
\* convert to a number (a JSON number, a text that spells one, a boolean)
FrameField(k) == IF k \in DOMAIN FrameTree.v THEN FrameTree.v[k] ELSE Undefined
WellFormedFrame ==
    /\ FrameTree.t = "object"
    /\ FrameField("s").t = "string"
    /\ FrameField("s").v # <<>>
    /\ VariantToDouble(FrameField("b")).ok
    /\ VariantToDouble(FrameField("a")).ok

\* C18: an inbound text frame that is a JSON object with a non-empty symbol s
\* and numeric b and a makes the client emit exactly one bookTicker signal
\* with the values of s, b and a; any other frame makes it emit nothing, no
\* bookTicker and no errorOccurred.  In both cases the socket is called
\* nothing and the connection stays as it was, open, so that later frames
\* are still delivered.
C18_FrameHandled ==
    [][wsStep'.op = "textMessageReceived" =>
          /\ wsStep'.events =
                (IF WellFormedFrame'
                 THEN <<[signal |-> "bookTicker",
                         args |-> <<FrameField("s")'.v,
                                    VariantToDouble(FrameField("b")').value,
                                    VariantToDouble(FrameField("a")').value>>]>>
                 ELSE <<>>)
          /\ wsStep'.calls = <<>>
          /\ socket_' = socket_
          /\ connections' = connections
          /\ socket_'.state = "ConnectedState"
          /\ wsCalls' = wsCalls]_vars

C18_Witness ==
    /\ FrameReceived
    /\ FrameTree.t = "object"
    /\ ~WellFormedFrame
    /\ VariantToDouble(FrameField("b")).ok
    /\ FrameField("a").t = "undefined"
    /\ wsStep.events = <<>>
    /\ socket_.state = "ConnectedState"

DisconnectCalled == wsStep.op = "disconnectFromStream"

\* C19: disconnectFromStream is idempotent.  A call that directly follows
\* another call of it changes nothing and emits nothing, so that two calls in
\* a row leave the client in the state, and with the signals, of one; and a
\* call made while the socket is unconnected changes nothing, emits nothing
\* and calls no close.
C19_DisconnectIdempotent ==
    [][wsStep'.op = "disconnectFromStream" =>
          /\ wsStep.op = "disconnectFromStream" =>
                /\ socket_' = socket_
                /\ connections' = connections
                /\ wsStep'.events = <<>>
          /\ socket_.state = "UnconnectedState" =>
                /\ socket_' = socket_
                /\ connections' = connections
                /\ wsStep'.events = <<>>
                /\ wsStep'.calls = <<>>
          /\ socket_.state # "UnconnectedState" =>
                /\ Len(wsStep'.calls) = 1
                /\ wsStep'.calls[1].method = "close"
          /\ wsCalls' = wsCalls]_vars

C19_Witness ==
    /\ DisconnectCalled
    /\ wsStep.from = "ClosingState"
    /\ socket_.state = "ClosingState"
    /\ wsStep.calls # <<>>
    /\ wsStep.events = <<>>

SignalNames(events) == {events[i].signal : i \in 1..Len(events)}

\* C20: the client never opens a connection on its own.  A step opens at most
\* as many connections as it is a call of connectBookTicker, so the number of
\* connections opened never exceeds the number of connectBookTicker calls; a
\* transport error emits errorOccurred and disconnected, a remote close emits
\* disconnected, neither calls the socket, and both leave the socket
\* unconnected; an unconnected socket leaves that state only in a call of
\* connectBookTicker.
C20_NoReconnect ==
    [][/\ wsCalls'.open - wsCalls.open
             <= wsCalls'.connectBookTicker - wsCalls.connectBookTicker
       /\ wsCalls'.open <= wsCalls'.connectBookTicker
       /\ (wsCalls'.open > wsCalls.open
           \/ (socket_.state = "UnconnectedState"
               /\ socket_'.state # "UnconnectedState"))
             => wsStep'.op = "connectBookTicker"
       /\ wsStep'.op = "errorOccurred" =>
             /\ SignalNames(wsStep'.events) = {"errorOccurred", "disconnected"}
             /\ wsStep'.calls = <<>>
             /\ socket_'.state = "UnconnectedState"
       /\ wsStep'.op = "remoteClose" =>
             /\ SignalNames(wsStep'.events) = {"disconnected"}
             /\ wsStep'.calls = <<>>
             /\ socket_'.state = "UnconnectedState"]_vars

C20_Witness ==
    /\ wsStep.op = "errorOccurred"
    /\ wsStep.from = "ConnectedState"
    /\ socket_.state = "UnconnectedState"
    /\ wsCalls.connectBookTicker = 2
    /\ wsCalls.open = 1
    /\ connections = NoConnections

\* the socket is attached to a connection that is connecting or open and on
\* which no close has been asked for: the subscription is alive
Active ==
    /\ socket_.current \in DOMAIN connections
    /\ connections[socket_.current].status \in {"connecting", "open"}

\* C21: disconnectFromStream is effective at once for future frames.  When it
\* has returned the subscription is no longer alive, it comes alive again
\* only in a call of connectBookTicker, and a bookTicker signal is emitted
\* only by a frame that arrives while the subscription is alive and the
\* socket is connected: no frame that arrives after disconnectFromStream has
\* returned is delivered.
C21_NoFrameAfterDisconnect ==
    [][/\ wsStep'.op = "disconnectFromStream" => ~Active'
       /\ (~Active /\ Active') => wsStep'.op = "connectBookTicker"
       /\ "bookTicker" \in SignalNames(wsStep'.events) =>
             /\ wsStep'.op = "textMessageReceived"
             /\ Active
             /\ socket_.state = "ConnectedState"
             /\ wsStep.op # "disconnectFromStream"]_vars

C21_Witness ==
    /\ DisconnectCalled
    /\ wsStep.from = "ConnectedState"
    /\ socket_.state = "ClosingState"
    /\ socket_.current \in DOMAIN connections
    /\ ~Active

\* ------------------------------------------------------------- the requests
\* the text a URL transmits, a digest written as one mark
UrlKinds(url) == [i \in 1..Len(url) |-> url[i].kind]

IsTimestampQuery(text) ==
    /\ Len(text) >= 2
    /\ text[1] = "timestamp="
    /\ \A c \in 2..Len(text) : IsDigit(text[c])

\* C22: the balance request is signed over the bytes it transmits.  Its URL
\* is base, endpoint, "?", the query timestamp=T, "&signature=" and the
\* HMAC-SHA256 digest, keyed by the API secret as it was passed, of that same
\* text timestamp=T, T being the clock at the call; nothing stands between
\* or after them, and the API key is sent as the X-MBX-APIKEY header.
C22_SignedAsSent ==
    \A i \in 1..Len(stack) :
        stack[i].op = "balance" =>
            LET url == stack[i].request.url
                headers == stack[i].request.headers IN
            /\ UrlKinds(url) = <<"text", "text", "text", "text", "text",
                                 "hmacSha256Hex">>
            /\ url[3].text = <<"?">>
            /\ IsTimestampQuery(url[4].text)
            /\ DecimalValue(Tail(url[4].text)) = stack[i].start
            /\ url[5].text = <<"&signature=">>
            /\ url[6].message = url[4].text
            /\ url[6].key = stack[i].input.apiSecret
            /\ Cardinality({h \in 1..Len(headers) :
                              headers[h][1] = "X-MBX-APIKEY"}) = 1
            /\ \E h \in 1..Len(headers) :
                  headers[h] = <<"X-MBX-APIKEY", stack[i].input.apiKey>>

C22_Witness ==
    /\ Len(stack) = 1
    /\ stack[1].op = "balance"
    /\ stack[1].start > 0
    /\ stack[1].input.apiKey = <<" ", "k", "\t">>
    /\ stack[1].request.url[4].text = <<"timestamp=", "5", "0", "0">>
    /\ stack[1].request.url[6].message = <<"timestamp=", "5", "0", "0">>

\* ------------------------------------------------------------------------ C23
IsProperSuffix(short, long) == Len(short) < Len(long) /\ endsWith(long, short)

\* the table entries that end the symbol after a non-empty base
QuotesOf(symbol) ==
    {q \in 1..Len(quoteAssets) : IsProperSuffix(quoteAssets[q], symbol)}

\* the longest of them
LongestQuoteOf(symbol) ==
    CHOOSE q \in QuotesOf(symbol) :
        \A other \in QuotesOf(symbol) : Len(quoteAssets[other]) <= Len(quoteAssets[q])

\* C23: for a symbol without '_' that is a non-empty base followed by a quote
\* asset of the table, spotSymbolWithUnderscore puts the separator before the
\* longest table entry that ends the symbol, no shorter entry listed earlier
\* shadowing it (X+BUSD gives X_BUSD, X+BIDR gives X_BIDR).
C23_LongestQuoteWins ==
    (/\ symbolCall.fn = "spotSymbolWithUnderscore"
     /\ ~containsChar(symbolCall.input, "_")
     /\ QuotesOf(symbolCall.input) # {})
    => LET quote == quoteAssets[LongestQuoteOf(symbolCall.input)] IN
       symbolCall.output =
           left(symbolCall.input, Len(symbolCall.input) - Len(quote))
           \o <<"_">> \o quote

\* ------------------------------------------------------------------------ C24
IsUpperText(s) == \A i \in 1..Len(s) : s[i] = toUpper(<<s[i]>>)[1]

\* C24: the canonical symbol is uppercase and has no '/', and canonicalising
\* its futures display form (the canonical symbol followed by ".P") gives the
\* canonical symbol again.
C24_RoundTrip ==
    /\ symbolCall.fn \in {"normalizeChartSymbol", "normalizeDisplayed"}
       => /\ IsUpperText(symbolCall.output)
          /\ ~containsChar(symbolCall.output, "/")
    /\ symbolCall.fn = "normalizeDisplayed"
       => symbolCall.output = symbolCall.canonical

\* ------------------------------------------------------------------------ C25
\* the symbol in lower case with every whitespace character taken out
WithoutWhitespace(symbol) == SelectSeq(toLower(symbol), LAMBDA c : ~IsSpace(c))

\* the four streaming hosts, by <<futures, testnet>>
StreamHost(futures, testnet) ==
    CASE futures /\ testnet -> Lit("wss://stream.binancefuture.com/ws")
      [] futures /\ ~testnet -> Lit("wss://fstream.binance.com/ws")
      [] ~futures /\ testnet -> Lit("wss://testnet.binance.vision/ws")
      [] OTHER -> Lit("wss://stream.binance.com:9443/ws")

OpenedUrls(step) ==
    {step.calls[i].url : i \in {k \in 1..Len(step.calls) : step.calls[k].method = "open"}}

\* C25: a connectBookTicker call with a non-blank symbol opens exactly the URL
\* host(futures, testnet) + '/' + t + '@bookTicker', t being the symbol in
\* lower case with all whitespace removed, and the four hosts are pairwise
\* distinct.
C25_StreamUrl ==
    /\ \A f1, t1, f2, t2 \in BOOLEAN :
          StreamHost(f1, t1) = StreamHost(f2, t2) => (f1 = f2 /\ t1 = t2)
    /\ (/\ wsStep.op = "connectBookTicker"
        /\ WithoutWhitespace(wsStep.arg[1]) # <<>>)
       => OpenedUrls(wsStep) =
              { StreamHost(wsStep.arg[2], wsStep.arg[3]) \o Lit("/")
                \o WithoutWhitespace(wsStep.arg[1]) \o Lit("@bookTicker") }

\* ------------------------------------------------------------------------ C26
\* Idle, Connecting and Open are the states Unconnected, Connecting and
\* Connected of the socket; Closed-on-error is Unconnected reached by an error.
\* A close the client asked for may pass through Closing on its way to Idle.
Transition(from, to) == <<from, to>>

SpecTransitions ==
    { Transition("UnconnectedState", "ConnectingState"),
      Transition("ConnectingState", "ConnectedState"),
      Transition("ConnectedState", "UnconnectedState"),
      Transition("ConnectedState", "ClosingState"),
      Transition("ClosingState", "UnconnectedState") }

\* the steps that may take the socket from one state to another
StepsOf(from, to) ==
    CASE to = "ConnectingState" -> {"connectBookTicker"}
      [] from = "ConnectingState" /\ to = "ConnectedState" -> {"connected"}
      [] from = "ConnectingState" /\ to = "UnconnectedState" ->
             {"disconnectFromStream", "disconnected", "errorOccurred"}
      [] from = "ConnectedState" /\ to = "UnconnectedState" ->
             {"disconnectFromStream", "remoteClose", "errorOccurred"}
      [] from = "ConnectedState" /\ to = "ClosingState" -> {"disconnectFromStream"}
      [] from = "ClosingState" /\ to = "UnconnectedState" ->
             {"disconnected", "errorOccurred"}
      [] OTHER -> {}

\* connected is emitted only from Connecting and after a connectBookTicker
\* call, bookTicker only while Open
SignalsInPlace ==
    /\ "connected" \in SignalNames(wsStep'.events) =>
          /\ socket_.state = "ConnectingState"
          /\ socket_'.state = "ConnectedState"
          /\ wsCalls.connectBookTicker > 0
    /\ "bookTicker" \in SignalNames(wsStep'.events) =>
          /\ socket_.state = "ConnectedState"
          /\ socket_'.state = "ConnectedState"

\* C26 as stated: the connection only moves Idle -> Connecting -> Open ->
\* Idle, never Open directly to Connecting nor Connecting directly to Idle;
\* connected is emitted only from Connecting after a connectBookTicker call
\* and bookTicker only while Open.
C26_OnlySpecTransitions ==
    [][/\ socket_'.state # socket_.state =>
             Transition(socket_.state, socket_'.state) \in SpecTransitions
       /\ SignalsInPlace]_vars

\* C26: the connection moves Idle -> Connecting -> Open -> Idle (through
\* Closing when the close is not completed at once), and besides a
\* connectBookTicker call takes it to Connecting from every state, Open
\* included, and a disconnectFromStream call or an error takes it from
\* Connecting to Idle; every change of state is made by the step that may make
\* it, connected is emitted only from Connecting after a connectBookTicker
\* call and bookTicker only while Open.
C26_Transitions ==
    [][/\ socket_'.state # socket_.state =>
             wsStep'.op \in StepsOf(socket_.state, socket_'.state)
       /\ SignalsInPlace]_vars

\* a connectBookTicker call has taken the open connection to Connecting
C26_Witness ==
    /\ wsStep.op = "connectBookTicker"
    /\ wsStep.from = "ConnectedState"
    /\ socket_.state = "ConnectingState"

\* ------------------------------------------------------------------------ C27
IsBlank(symbol) == \A i \in 1..Len(symbol) : IsSpace(symbol[i])

\* C27: a connectBookTicker call whose symbol is empty or whitespace-only
\* emits one errorOccurred("Symbol is empty.") and nothing else, makes no call
\* on the socket and leaves the socket and its connections as they were: an
\* open connection is neither closed nor replaced and stays the one whose
\* frames are delivered.
C27_BlankSymbolChangesNothing ==
    [][(wsStep'.op = "connectBookTicker" /\ IsBlank(wsStep'.arg[1])) =>
          /\ wsStep'.events = <<Signal("errorOccurred", <<Lit("Symbol is empty.")>>)>>
          /\ wsStep'.calls = <<>>
          /\ socket_' = socket_
          /\ connections' = connections
          /\ (socket_.state = "ConnectedState" /\ Active) =>
                (socket_'.state = "ConnectedState" /\ Active')]_vars

\* a blank subscription was made on an open connection, which is still open
C27_Witness ==
    /\ wsStep.op = "connectBookTicker"
    /\ IsBlank(wsStep.arg[1])
    /\ wsStep.from = "ConnectedState"
    /\ socket_.state = "ConnectedState"
    /\ Active

\* ------------------------------------------------------------------------ C28
\* the symbols of the subscriptions whose URL is the one last requested
LastSubscribed ==
    { WsSubscriptions[k][1] :
        k \in {j \in 1..Len(WsSubscriptions) :
                 streamUrl(WsSubscriptions[j][1], WsSubscriptions[j][2],
                           WsSubscriptions[j][3]) = socket_.requestUrl} }

BookTickers(step) ==
    {step.events[i] : i \in {k \in 1..Len(step.events) :
                               step.events[k].signal = "bookTicker"}}

\* C28: every bookTicker event emitted after connectBookTicker(B, ...) carries
\* the symbol of that most recent subscription, whatever its case and the
\* whitespace around it; no event for another symbol that the server sends is
\* delivered.
C28_OnlySubscribedSymbol ==
    \A event \in BookTickers(wsStep) :
        \E B \in LastSubscribed : toLower(event.args[1]) = WithoutWhitespace(B)

\* ------------------------------------------------------------------------ C29
\* every refresh that was started has returned, and one was started
RefreshesReturned == chart.refreshes = <<>> /\ chart.latest > 0

\* the status line of a loaded view for what the combo boxes select
SelectedStatus ==
    Lit("Original view loaded: ") \o chart.symbol \o Lit(" (") \o chart.interval
    \o Lit(")")

\* C29: once all started refreshes of the native chart view have returned,
\* what is shown was written by the refresh started last, never by one
\* started for an earlier selection, and a view that is shown as loaded names
\* the symbol and the interval selected in the combo boxes, also when the
\* selection was changed while an earlier fetchKlines was still waiting.
C29_ShowsCurrentSelection ==
    RefreshesReturned =>
        /\ chart.writer = chart.latest
        /\ chart.candles # <<>> => chart.status = SelectedStatus

\* ------------------------------------------------------------------------ C30
\* sub stands somewhere in text
Within(sub, text) ==
    \E i \in 1..(Len(text) - Len(sub) + 1) : SubSeq(text, i, i + Len(sub) - 1) = sub

\* the API keys and the API secrets of the session, as the caller holds them
SessionKeys ==
    {Credentials[c][1] : c \in 1..Len(Credentials)} \ {<<>>}
SessionSecrets ==
    {Credentials[c][2] : c \in 1..Len(Credentials)} \ {<<>>}

ShowsAny(texts, text) == \E sub \in texts : Within(sub, text)

HeaderNames(headers) == {headers[h][1] : h \in 1..Len(headers)}

\* the characters a stream URL may be made of for the symbol subscribed to
StreamUrlAtoms(symbol) ==
    {StreamHost(futures, testnet)[1] : futures \in BOOLEAN, testnet \in BOOLEAN}
    \cup {"/", "@bookTicker"} \cup {toLower(symbol)[i] : i \in 1..Len(symbol)}

\* C30: the API secret never leaves the process in clear.  No URL and no
\* header of a request shows a secret; a digest is sent only by
\* fetchUsdtBalance and is keyed by the secret of the call; the requests of
\* fetchUsdtSymbols and fetchKlines carry no key header, no digest and no key
\* in their URL; the URL the WebSocket client opens is made of the host, the
\* symbol and the stream name only; and no error message of a query shows a
\* key or a secret.
C30_SecretNeverSent ==
    /\ \A i \in 1..Len(stack) :
          LET f == stack[i]
              url == f.request.url
              headers == f.request.headers IN
          /\ \A p \in 1..Len(url) :
                /\ url[p].kind \in {"text", "hmacSha256Hex"}
                /\ url[p].kind = "text" => ~ShowsAny(SessionSecrets, url[p].text)
                /\ url[p].kind = "hmacSha256Hex" =>
                      /\ f.op = "balance"
                      /\ url[p].key = f.input.apiSecret
                      /\ url[p].text = <<>>
          /\ \A h \in 1..Len(headers) : ~ShowsAny(SessionSecrets, headers[h][2])
          /\ f.op \in {"symbols", "klines"} =>
                /\ HeaderNames(headers) = {"User-Agent"}
                /\ \A p \in 1..Len(url) :
                      /\ url[p].kind = "text"
                      /\ ~ShowsAny(SessionKeys, url[p].text)
    /\ wsStep.op = "connectBookTicker" =>
          \A url \in OpenedUrls(wsStep) :
              {url[i] : i \in 1..Len(url)} \subseteq StreamUrlAtoms(wsStep.arg[1])
    /\ last.op # "none" =>
          ~ShowsAny(SessionKeys \cup SessionSecrets, last.result.error)

\* a signed balance request is on its way
C30_Witness ==
    \E i \in 1..Len(stack) :
        /\ stack[i].op = "balance"
        /\ stack[i].input.apiSecret = <<"s">>
        /\ \E p \in 1..Len(stack[i].request.url) :
              stack[i].request.url[p].kind = "hmacSha256Hex"

====
